---- MODULE Spec2Model ----
(***************************************************************************)
(* http-transit: a Host-header based HTTP forwarding proxy.                *)
(*                                                                         *)
(* The model follows src/config.go (LoadConfig) and src/proxy.go           *)
(* (NewProxyHandler, initializeClientPools, ServeHTTP, forwardRequest,     *)
(* buildTransitBackendURL, processHeaders, extractDomain, extractHost).    *)
(*                                                                         *)
(* Strings that the code inspects (header names, backend_base, paths) are  *)
(* sequences of one-character strings, so that HasPrefix, TrimSuffix,      *)
(* ToLower, the canonical MIME form and url.Parse are computed, not        *)
(* assumed.  The empty string is <<>>.  Message bodies and error texts are  *)
(* opaque TLA+ strings.                                                    *)
(***************************************************************************)
EXTENDS Integers, Sequences, FiniteSets, TLC

VARIABLES
    config,     \* ProxyHandler.config.TransitMap: frontend host -> TransitRule
    clients,    \* ProxyHandler.clients: pool key -> client identity
    startup,    \* progress of NewProxyHandler / initializeClientPools
    reqs,       \* the requests handled by ServeHTTP, by arrival number
    hdr,        \* one processHeaders call: rule, inbound header, result
    url,        \* one buildTransitBackendURL call: rule, path, query, result
    gz,         \* gzipReaderPool, its readers and the decompress calls
    tr,         \* one rendered ProxyTrace: the trace and ProxyTrace.String of it
    dns         \* one dial of a pooled client with a resolve override

vars == <<config, clients, startup, reqs, hdr, url, gz, tr, dns>>

----------------------------------------------------------------------------
(* Bounds of the model *)

\* longest value list of one inbound header
MaxVals == 2

----------------------------------------------------------------------------
(* strings *)

\* body(v), with v computed once: Go's `v := value` before a use of v
With(value, body(_)) == CHOOSE r \in {body(v) : v \in {value}} : TRUE

HasPrefix(s, p) == Len(s) >= Len(p) /\ SubSeq(s, 1, Len(p)) = p

HasSuffix(s, p) == Len(s) >= Len(p) /\ SubSeq(s, Len(s) - Len(p) + 1, Len(s)) = p

TrimSuffix(s, p) == IF HasSuffix(s, p) THEN SubSeq(s, 1, Len(s) - Len(p)) ELSE s

\* strings.Index: the first position of character c in s, 0 when absent
\* (Go's -1; positions here are 1-based)
Index(s, c) ==
    IF \E i \in 1..Len(s) : s[i] = c
    THEN CHOOSE i \in 1..Len(s) : s[i] = c /\ \A j \in 1..(i - 1) : s[j] # c
    ELSE 0

LastIndex(s, c) ==
    IF \E i \in 1..Len(s) : s[i] = c
    THEN CHOOSE i \in 1..Len(s) : s[i] = c /\ \A j \in (i + 1)..Len(s) : s[j] # c
    ELSE 0

\* the letters that occur in the model's strings, upper case and lower case
UpperCase == <<"A", "B", "E", "G", "H", "I", "O", "P", "S", "T", "U", "X", "Z">>
LowerCase == <<"a", "b", "e", "g", "h", "i", "o", "p", "s", "t", "u", "x", "z">>

IsUpper(c) == \E i \in 1..Len(UpperCase) : UpperCase[i] = c
IsLower(c) == \E i \in 1..Len(LowerCase) : LowerCase[i] = c \/ c \in {"c", "p"}
IsLetter(c) == IsUpper(c) \/ IsLower(c)
IsDigit(c) == c \in {"0", "1", "2", "3", "4", "5", "6", "7", "8", "9"}

LowerCh(c) ==
    IF IsUpper(c)
    THEN LowerCase[CHOOSE i \in 1..Len(UpperCase) : UpperCase[i] = c]
    ELSE c

UpperCh(c) ==
    IF \E i \in 1..Len(LowerCase) : LowerCase[i] = c
    THEN UpperCase[CHOOSE i \in 1..Len(LowerCase) : LowerCase[i] = c]
    ELSE c

\* strings.ToLower
ToLower(s) == [i \in 1..Len(s) |-> LowerCh(s[i])]

\* textproto.CanonicalMIMEHeaderKey, used by http.Header Get, Set and Del:
\* the first letter and every letter after '-' in upper case, the others in
\* lower case; a key with a space is returned as it is
CanonicalHeaderKey(s) ==
    IF \E i \in 1..Len(s) : s[i] = " "
    THEN s
    ELSE [i \in 1..Len(s) |->
            IF i = 1 \/ s[i - 1] = "-" THEN UpperCh(s[i]) ELSE LowerCh(s[i])]

----------------------------------------------------------------------------
(* net/url: url.Parse, as far as its Host and its error are concerned *)

SchemeHTTP == <<"h", "t", "t", "p", ":", "/", "/">>
SchemeHTTPS == <<"h", "t", "t", "p", "s", ":", "/", "/">>

\* url.getScheme: position of the ':' that ends a scheme, 0 when the string
\* has no scheme, -1 for "missing protocol scheme" (a leading ':')
SchemeEnd(s) ==
    LET ok(i) == IsLetter(s[i]) \/ (i > 1 /\ (IsDigit(s[i]) \/ s[i] \in {"+", "-", "."}))
    IN  With({i \in 1..Len(s) : ~ok(i)}, LAMBDA stops :
            IF stops = {} THEN 0
            ELSE With(CHOOSE i \in stops : \A j \in stops : i <= j, LAMBDA k :
                    IF s[k] # ":" THEN 0
                    ELSE IF k = 1 THEN -1
                    ELSE k))

\* url.parseAuthority / parseHost: the host[:port] after the user info; an
\* error for a character that no host may hold or a port that is no number
AuthorityHost(a) ==
    With(SubSeq(a, LastIndex(a, "@") + 1, Len(a)), LAMBDA host :
    With(LastIndex(host, ":"), LAMBDA col :
    With(\/ \E i \in 1..Len(host) : host[i] = " "
         \/ /\ col # 0
            /\ host[1] # "["
            /\ \E i \in (col + 1)..Len(host) : ~IsDigit(host[i]), LAMBDA bad :
        [err |-> bad, Host |-> IF bad THEN <<>> ELSE host])))

\* url.Parse(rawURL): [err, Host]
\* s up to the first c, all of s when c is absent
Before(s, c) ==
    With(Index(s, c), LAMBDA idx : IF idx = 0 THEN s ELSE SubSeq(s, 1, idx - 1))

urlParse(rawURL) ==
    With(Before(rawURL, "#"), LAMBDA noFrag :
    With(SchemeEnd(noFrag), LAMBDA se :
    With(Before(IF se > 0 THEN SubSeq(noFrag, se + 1, Len(noFrag)) ELSE noFrag, "?"),
         LAMBDA rest :
        IF se = -1 THEN [err |-> TRUE, Host |-> <<>>]
        ELSE IF ~HasPrefix(rest, <<"/">>)
        THEN IF se > 0
             THEN [err |-> FALSE, Host |-> <<>>]            \* an opaque URL
             ELSE IF Index(Before(rest, "/"), ":") # 0
             THEN [err |-> TRUE, Host |-> <<>>]             \* colon in first segment
             ELSE [err |-> FALSE, Host |-> <<>>]            \* a relative path
        ELSE IF HasPrefix(rest, <<"/", "/">>) /\ ~HasPrefix(rest, <<"/", "/", "/">>)
        THEN With(Before(SubSeq(rest, 3, Len(rest)), "/"), LAMBDA authority :
                AuthorityHost(authority))
        ELSE [err |-> FALSE, Host |-> <<>>])))

----------------------------------------------------------------------------
(* net/http: http.Header, a map from key to a list of values *)

EmptyHeader == [k \in {} |-> <<>>]

\* a Go map with no entry
NoMap == [k \in {} |-> <<>>]

\* Header.Get: the first value under the canonical key, "" when there is none
\* (a key with an empty first value gives "" too)
Get(h, key) ==
    With(CanonicalHeaderKey(key), LAMBDA k :
        IF k \in DOMAIN h /\ Len(h[k]) > 0 THEN h[k][1] ELSE <<>>)

\* Header.Set: the canonical key now holds the single value
Set(h, key, value) ==
    With(CanonicalHeaderKey(key), LAMBDA k :
        [x \in (DOMAIN h) \cup {k} |-> IF x = k THEN <<value>> ELSE h[x]])

\* Header.Del
Del(h, key) ==
    With(CanonicalHeaderKey(key), LAMBDA k : [x \in (DOMAIN h) \ {k} |-> h[x]])

\* the orders in which a Go map with key set S may be iterated
Orders(S) ==
    {o \in [1..Cardinality(S) -> S] : \A i, j \in 1..Cardinality(S) : i # j => o[i] # o[j]}

----------------------------------------------------------------------------
(* config.go: TransitRule, HeadersConfig and LoadConfig *)

\* a TransitRule as json.Unmarshal leaves it: the unexported field removes
\* (json:"-") is nil, the empty set
RawRule(base, prefix, forward, remove, extra, set) ==
    [BackendBase   |-> base,
     BackendPrefix |-> prefix,
     Headers       |-> [Set           |-> set,
                        Extra         |-> extra,
                        Remove        |-> remove,
                        ForwardClient |-> forward,
                        removes       |-> {}]]

\* the body of LoadConfig's loop, on its loop variable: `rule` is a copy of
\* the map's value, and it is `rule.Headers.removes` that receives the
\* lower-cased names
LoadConfigLoopBody(rule) ==
    IF Len(rule.Headers.Remove) > 0
    THEN [rule EXCEPT !.Headers.removes =
            {ToLower(rule.Headers.Remove[i]) : i \in 1..Len(rule.Headers.Remove)}]
    ELSE rule

\* LoadConfig: the TransitMap of the Config it returns.  The loop
\* `for host, rule := range config.TransitMap` works on copies and never
\* assigns config.TransitMap[host], so the map returned is the map that was
\* unmarshalled.
LoadConfig(transitMap) ==
    LET rule == [host \in DOMAIN transitMap |-> LoadConfigLoopBody(transitMap[host])]
    IN  [host \in DOMAIN rule |-> transitMap[host]]

----------------------------------------------------------------------------
(* proxy.go: the pure parts of ProxyHandler *)

\* ProxyHandler.extractDomain: the pool key of a backend_base
extractDomain(backendBase) ==
    With(IF ~HasPrefix(backendBase, SchemeHTTP) /\ ~HasPrefix(backendBase, SchemeHTTPS)
         THEN SchemeHTTP \o backendBase
         ELSE backendBase, LAMBDA b :
    With(urlParse(b), LAMBDA parsedURL :
        IF parsedURL.err THEN b ELSE parsedURL.Host))

\* ProxyHandler.extractHost: the value forced onto the Host header
extractHost(backendBase) ==
    With(urlParse(backendBase), LAMBDA parsedURL :
        IF parsedURL.err THEN backendBase ELSE parsedURL.Host)

\* a builder that joins base and path without the test for a leading '/'
buildTransitBackendURLNoSlash(rule, urlPath, rawQuery) ==
    LET backendBase == TrimSuffix(rule.BackendBase, <<"/">>)
        path1 == rule.BackendPrefix \o urlPath
        path2 == IF rawQuery # <<>> THEN path1 \o <<"?">> \o rawQuery ELSE path1
        base2 == IF ~HasPrefix(backendBase, SchemeHTTP) /\ ~HasPrefix(backendBase, SchemeHTTPS)
                 THEN SchemeHTTP \o backendBase
                 ELSE backendBase
    IN  base2 \o path2

\* ProxyHandler.buildTransitBackendURL (its error result is always nil)
buildTransitBackendURL(rule, urlPath, rawQuery) ==
    LET backendBase == TrimSuffix(rule.BackendBase, <<"/">>)
        path1 == rule.BackendPrefix \o urlPath
        path2 == IF rawQuery # <<>> THEN path1 \o <<"?">> \o rawQuery ELSE path1
        path3 == IF ~HasPrefix(path2, <<"/">>) THEN <<"/">> \o path2 ELSE path2
        base2 == IF ~HasPrefix(backendBase, SchemeHTTP) /\ ~HasPrefix(backendBase, SchemeHTTPS)
                 THEN SchemeHTTP \o backendBase
                 ELSE backendBase
    IN  base2 \o path3

\* processHeaders, first loop: the inbound headers that are copied
ForwardClientHeaders(header, rule) ==
    IF rule.Headers.ForwardClient
    THEN [key \in {k \in DOMAIN header : ToLower(k) \notin rule.Headers.removes}
            |-> header[key]]
    ELSE EmptyHeader

\* processHeaders, one pass of the loop over rule.Headers.Extra
ExtraStep(headers, key, value) ==
    IF Get(headers, key) = <<>> THEN Set(headers, key, value) ELSE headers

\* a pass of the loop over rule.Headers.Set that adds the value to the ones
\* already there (Header.Add in place of Del and Set)
SetStepNoDelete(headers, key, value) ==
    With(CanonicalHeaderKey(key), LAMBDA k :
        [x \in (DOMAIN headers) \cup {k} |->
            IF x = k
            THEN (IF k \in DOMAIN headers THEN headers[k] ELSE <<>>) \o <<value>>
            ELSE headers[x]])

\* processHeaders, one pass of the loop over rule.Headers.Set
SetStep(headers, key, value) ==
    Set(IF Get(headers, key) # <<>> THEN Del(headers, key) ELSE headers, key, value)

RECURSIVE ExtraLoop(_, _, _)
ExtraLoop(headers, extra, order) ==
    IF order = <<>> THEN headers
    ELSE With(ExtraStep(headers, Head(order), extra[Head(order)]), LAMBDA next :
            ExtraLoop(next, extra, Tail(order)))

RECURSIVE SetLoop(_, _, _)
SetLoop(headers, set, order) ==
    IF order = <<>> THEN headers
    ELSE With(SetStep(headers, Head(order), set[Head(order)]), LAMBDA next :
            SetLoop(next, set, Tail(order)))

HostKey == <<"H", "o", "s", "t">>

\* ProxyHandler.processHeaders; extraOrder and setOrder are the orders in
\* which the two maps happen to be iterated
processHeaders(header, rule, extraOrder, setOrder) ==
    With(ForwardClientHeaders(header, rule), LAMBDA forwarded :
    With(ExtraLoop(forwarded, rule.Headers.Extra, extraOrder), LAMBDA withExtra :
    With(SetLoop(withExtra, rule.Headers.Set, setOrder), LAMBDA withSet :
        Set(withSet, HostKey, extractHost(rule.BackendBase)))))

----------------------------------------------------------------------------
(* The header pipeline on its own: one call of processHeaders on a rule   *)
(* that LoadConfig returned and an inbound header of the HTTP server.     *)

\* header names; net/http hands the handler canonical keys, and keeps Host
\* out of r.Header
XA   == <<"X", "-", "A">>
xa   == <<"x", "-", "a">>
XB   == <<"X", "-", "B">>
Auth == <<"A", "u", "t", "h">>
auth == <<"a", "u", "t", "h">>

BaseHttpB == SchemeHTTP \o <<"b">>
BaseBPort == <<"b", ":", "9">>

InboundKeys == {XA, Auth}
ValueLists == UNION {[1..n -> {<<>>, <<"c">>}] : n \in 1..MaxVals}
InboundHeaders == UNION {[ks -> ValueLists] : ks \in SUBSET InboundKeys}

RemoveLists == {<<>>, <<auth>>, <<Auth>>, <<XB, auth>>}
ExtraMaps ==
    {NoMap, XA :> <<"e">>, xa :> <<"e">>, XB :> <<"e">>,
     (xa :> <<"e">>) @@ (XA :> <<"f">>), HostKey :> <<"e">>}
SetMaps ==
    {NoMap, XA :> <<"s">>, xa :> <<"s">>, (xa :> <<"s">>) @@ (XA :> <<"t">>),
     HostKey :> <<"s">>, Auth :> <<"s">>, XB :> <<>>}

HdrRawRules ==
    {RawRule(base, <<>>, forward, remove, extra, set) :
        base \in {BaseHttpB, BaseBPort}, forward \in BOOLEAN,
        remove \in RemoveLists, extra \in ExtraMaps, set \in SetMaps}

\* the other parts of the model, at rest
ServerIdle ==
    /\ config = NoMap
    /\ clients = NoMap
    /\ startup = [phase |-> "off"]
    /\ reqs = <<>>
HdrIdle == hdr = [done |-> FALSE]
UrlIdle == url = [done |-> FALSE]
GzIdle == gz = [pool |-> {}, readers |-> <<>>, calls |-> <<>>]
TrIdle == tr = [renders |-> <<>>]
DnsIdle == dns = [pc |-> "off"]

HdrInit ==
    /\ hdr \in {[rule    |-> LoadConfig([h \in {"api"} |-> raw])["api"],
                 inbound |-> header,
                 out     |-> EmptyHeader,
                 done    |-> FALSE] :
                    raw \in HdrRawRules, header \in InboundHeaders}
    /\ ServerIdle
    /\ UrlIdle
    /\ GzIdle /\ TrIdle /\ DnsIdle

\* req.Header = p.processHeaders(r, rule)
HdrProcess ==
    /\ ~hdr.done
    /\ \E extraOrder \in Orders(DOMAIN hdr.rule.Headers.Extra),
          setOrder \in Orders(DOMAIN hdr.rule.Headers.Set) :
            hdr' = [hdr EXCEPT
                      !.out = processHeaders(hdr.inbound, hdr.rule, extraOrder, setOrder),
                      !.done = TRUE]
    /\ UNCHANGED <<config, clients, startup, reqs, url, gz, tr, dns>>

HdrNext == HdrProcess

SpecHeaders == HdrInit /\ [][HdrNext]_vars

----------------------------------------------------------------------------
(* Claims about the header pipeline (SpecHeaders) *)

\* the inbound headers that the first loop of processHeaders copied
Forwarded == ForwardClientHeaders(hdr.inbound, hdr.rule)

\* the names of a map whose canonical form is k
SameKey(map, k) == {m \in DOMAIN map : CanonicalHeaderKey(m) = k}

\* C1: header removal is case-insensitive end to end.  For a rule loaded by
\* LoadConfig with forward_client and a remove list holding N in any letter
\* case, no inbound header whose lower-cased name is lowercase(N) is copied
\* to the outbound header: the outbound header has no such key, or holds
\* under it a value that extra or set put there.
C1_RemovedNeverForwarded ==
    (hdr.done /\ hdr.rule.Headers.ForwardClient) =>
        \A i \in 1..Len(hdr.rule.Headers.Remove) :
            \A k \in DOMAIN hdr.inbound :
                ToLower(k) = ToLower(hdr.rule.Headers.Remove[i]) =>
                    \/ k \notin DOMAIN hdr.out
                    \/ \E m \in SameKey(hdr.rule.Headers.Extra, k) :
                            hdr.out[k] = <<hdr.rule.Headers.Extra[m]>>
                    \/ \E m \in SameKey(hdr.rule.Headers.Set, k) :
                            hdr.out[k] = <<hdr.rule.Headers.Set[m]>>

\* C2: client-forwarded values win over extra.  For a name of extra (that
\* set does not name and that is not Host): when the name is among the
\* forwarded inbound headers, whatever its values, the outbound values are
\* exactly the forwarded ones; otherwise they are the one extra value.
C2_ForwardedWinsOverExtra ==
    hdr.done =>
        \A n \in DOMAIN hdr.rule.Headers.Extra :
            LET k == CanonicalHeaderKey(n)
            IN  (k # HostKey /\ SameKey(hdr.rule.Headers.Set, k) = {}) =>
                    /\ k \in DOMAIN hdr.out
                    /\ IF k \in DOMAIN Forwarded
                       THEN hdr.out[k] = Forwarded[k]
                       ELSE \E m \in SameKey(hdr.rule.Headers.Extra, k) :
                                hdr.out[k] = <<hdr.rule.Headers.Extra[m]>>

----------------------------------------------------------------------------
(* The URL builder on its own: one call of buildTransitBackendURL *)

UrlBases ==
    {BaseHttpB, BaseHttpB \o <<"/">>, BaseHttpB \o <<"/", "/">>, <<"b">>, <<"b", "/">>,
     SchemeHTTPS \o <<"c">>, BaseHttpB \o <<":", "9">>, BaseBPort, <<>>, <<"/">>}
UrlPrefixes == {<<>>, <<"/">>, <<"/", "v">>, <<"v">>}
UrlPaths == {<<>>, <<"/">>, <<"/", "u">>, <<"*">>}
UrlQueries == {<<>>, <<"x">>, <<"x", "?", "/">>}

UrlInit ==
    /\ url \in {[rule  |-> LoadConfig([h \in {"api"} |->
                              RawRule(base, prefix, TRUE, <<>>, NoMap, NoMap)])["api"],
                 path  |-> path,
                 query |-> query,
                 out   |-> <<>>,
                 done  |-> FALSE] :
                    base \in UrlBases, prefix \in UrlPrefixes,
                    path \in UrlPaths, query \in UrlQueries}
    /\ ServerIdle
    /\ HdrIdle
    /\ GzIdle /\ TrIdle /\ DnsIdle

\* targetURL, err := p.buildTransitBackendURL(rule, r)
UrlBuild ==
    /\ ~url.done
    /\ url' = [url EXCEPT !.out = buildTransitBackendURL(url.rule, url.path, url.query),
                          !.done = TRUE]
    /\ UNCHANGED <<config, clients, startup, reqs, hdr, gz, tr, dns>>

UrlNext == UrlBuild

SpecURL == UrlInit /\ [][UrlNext]_vars

\* the algorithm of the specification, in its order: strip one trailing '/'
\* from backend_base; backend_prefix + path; insert a leading '/' when there
\* is none; append '?' + query when the query is not empty; prepend http://
\* when backend_base has no http(s):// scheme
SpecBase(rule) ==
    LET stripped == IF Len(rule.BackendBase) > 0
                       /\ rule.BackendBase[Len(rule.BackendBase)] = "/"
                    THEN SubSeq(rule.BackendBase, 1, Len(rule.BackendBase) - 1)
                    ELSE rule.BackendBase
    IN  IF \/ (Len(stripped) >= 7 /\ SubSeq(stripped, 1, 7) = SchemeHTTP)
           \/ (Len(stripped) >= 8 /\ SubSeq(stripped, 1, 8) = SchemeHTTPS)
        THEN stripped
        ELSE SchemeHTTP \o stripped

SpecPath(rule, path, query) ==
    LET joined  == rule.BackendPrefix \o path
        slashed == IF joined = <<>> \/ joined[1] # "/" THEN <<"/">> \o joined ELSE joined
    IN  IF query # <<>> THEN slashed \o <<"?">> \o query ELSE slashed

\* C9: buildTransitBackendURL returns exactly the URL of the specification's
\* algorithm; the result has a scheme and, after the backend base, a path
\* that starts with '/'; base http://b:9, prefix /v, path /u and query x
\* give http://b:9/v/u?x.
C9_BackendURL ==
    url.done =>
        LET base == SpecBase(url.rule)
        IN  /\ url.out = base \o SpecPath(url.rule, url.path, url.query)
            /\ \/ SubSeq(url.out, 1, 7) = SchemeHTTP
               \/ SubSeq(url.out, 1, 8) = SchemeHTTPS
            /\ Len(url.out) > Len(base)
            /\ SubSeq(url.out, 1, Len(base)) = base
            /\ url.out[Len(base) + 1] = "/"
            /\ (/\ url.rule.BackendBase = BaseHttpB \o <<":", "9">>
                /\ url.rule.BackendPrefix = <<"/", "v">>
                /\ url.path = <<"/", "u">>
                /\ url.query = <<"x">>)
                => url.out = SchemeHTTP \o <<"b", ":", "9", "/", "v", "/", "u", "?", "x">>

\* C9, its case: no prefix and no path but a query, and a backend_base with
\* no scheme and a trailing '/': the '/' is inserted before the '?'
C9_Witness ==
    /\ url.done
    /\ url.rule.BackendBase = <<"b", "/">>
    /\ url.rule.BackendPrefix \o url.path = <<>>
    /\ url.query = <<"x">>
    /\ url.out = SchemeHTTP \o <<"b", "/", "?", "x">>

----------------------------------------------------------------------------
(* The server: NewProxyHandler at startup, then ServeHTTP per request *)

\* most requests the model lets arrive
MaxReqs == 2

\* http.ResponseWriter of one request.  header is the map of w.Header();
\* status, sent and body are what went to the client; calls is the list of
\* the handler's calls on w.
NewResponseWriter ==
    [header |-> EmptyHeader, wroteHeader |-> FALSE, status |-> 0,
     sent |-> EmptyHeader, body |-> <<>>, broken |-> FALSE, calls |-> <<>>]

\* w.Header()[key] = values, for every key of the backend's header
CopyHeader(w, header) ==
    [w EXCEPT !.header = [k \in (DOMAIN w.header) \cup (DOMAIN header) |->
                            IF k \in DOMAIN header THEN header[k] ELSE w.header[k]],
              !.calls = Append(@, <<"Header", header>>)]

\* w.WriteHeader(code): the first call sends the status line and the header
\* map as it is then; a later call is superfluous and changes nothing
WriteHeader(w, code) ==
    IF w.wroteHeader
    THEN [w EXCEPT !.calls = Append(@, <<"WriteHeader", code>>)]
    ELSE [w EXCEPT !.wroteHeader = TRUE, !.status = code, !.sent = w.header,
                   !.calls = Append(@, <<"WriteHeader", code>>)]

\* w.Write(data): sends the status 200 first when none was sent; ok is
\* whether the data reached the client (after a failed write none does)
Write(w, data, ok) ==
    With(IF w.wroteHeader THEN w
         ELSE [w EXCEPT !.wroteHeader = TRUE, !.status = 200, !.sent = w.header],
         LAMBDA w1 :
            [w1 EXCEPT !.body = IF ok /\ ~w1.broken THEN Append(@, data) ELSE @,
                       !.broken = @ \/ ~ok,
                       !.calls = Append(@, <<"Write", data>>)])

ContentType == <<"C", "o", "n", "t", "e", "n", "t", "-", "T", "y", "p", "e">>
ContentLength == <<"C", "o", "n", "t", "e", "n", "t", "-", "L", "e", "n", "g", "t", "h">>
TextPlain == <<"t", "e", "x", "t", "/", "p", "l", "a", "i", "n">>

\* http.Error(w, error, code): sets the content type, writes the status and
\* writes the error text and a newline
httpError(w, error, code) ==
    With([w EXCEPT !.header = Set(Del(@, ContentLength), ContentType, TextPlain)],
         LAMBDA w1 :
    With(WriteHeader(w1, code), LAMBDA w2 : Write(w2, <<error, "\n">>, TRUE)))

StatusNotFound == 404
StatusInternalServerError == 500

\* the error texts of proxy.go
ErrRuleNotFound == "rule not found"
ErrReadBody     == "read request body failed"
ErrNewRequest   == "create request failed"
ErrDispatch     == "forward request failed"
ErrReadResponse == "read response body failed"
ErrWrite        == "write response body failed"
Nil == "nil"

\* no *http.Client
NilClient == 0

NoResponse == [StatusCode |-> 0, Header |-> EmptyHeader, Body |-> ""]
NoRule == RawRule(<<>>, <<>>, FALSE, <<>>, NoMap, NoMap)

\* ProxyTrace before forwardRequest builds it
NoTrace ==
    [built |-> FALSE, Error |-> Nil, StatusCode |-> 0, BackendURL |-> <<>>,
     RequestHeaders |-> EmptyHeader, TransitHeaders |-> EmptyHeader,
     ResponseHeaders |-> EmptyHeader, RequestBody |-> "", ResponseBody |-> ""]

\* frontend hosts and the Host headers of requests
HostA == <<"a">>
HostC == <<"c">>
HostHeaders == {HostA \o <<":", "8">>, HostC, <<"z", ":", "8">>}

\* what a backend may answer
Responses ==
    {[StatusCode |-> 200, Header |-> XA :> <<<<"r">>>>, Body |-> "ok"],
     [StatusCode |-> 503, Header |-> EmptyHeader, Body |-> ""]}

\* the outcomes of w.Write(data): a write of no data never fails
WriteOutcomes(data) == IF data = "" THEN {TRUE} ELSE BOOLEAN

\* a request as the HTTP server hands it to ServeHTTP; key is the local
\* variable host of ServeHTTP, the key of the lookup in the TransitMap
NewRequest(host) ==
    [Host |-> host, Header |-> XA :> <<<<"c">>>>, Path |-> <<"/", "u">>,
     RawQuery |-> <<>>, Body |-> "in",
     pc |-> "route", key |-> <<>>, rule |-> NoRule, targetURL |-> <<>>,
     trace |-> NoTrace,
     w |-> NewResponseWriter, resp |-> NoResponse, client |-> NilClient,
     stages |-> <<>>, lookups |-> 0, bodyReads |-> 0, dispatches |-> 0]

\* the routes of the served tables
RuleA(base) == RawRule(base, <<"/", "v">>, TRUE, <<auth>>, xa :> <<"e">>, XB :> <<"s">>)
RuleC(base) == RawRule(base, <<>>, FALSE, <<>>, NoMap, NoMap)
BaseBad == SchemeHTTP \o <<"b", " ">>
BaseBPath == <<"b", "/", "p">>

Table(baseA, baseC) == (HostA :> RuleA(baseA)) @@ (HostC :> RuleC(baseC))

ServedTables ==
    {Table(BaseHttpB, SchemeHTTPS \o <<"c">>),
     Table(BaseBPort, BaseBPort),
     Table(BaseBad, BaseHttpB)}

\* NewProxyHandler is entered: the config is loaded, the clients map is made
\* and empty, and initializeClientPools has its whole loop to run
StartupInit(tables) ==
    /\ config \in {LoadConfig(t) : t \in tables}
    /\ clients = NoMap
    /\ startup = [phase |-> "init", pending |-> DOMAIN config, made |-> 0]
    /\ reqs = <<>>
    /\ HdrIdle
    /\ UrlIdle
    /\ GzIdle /\ TrIdle /\ DnsIdle

Init == StartupInit(ServedTables)

\* initializeClientPools, one pass of its loop, over the routes in any order:
\* the key that is tested is rule.BackendBase, the key that is written is
\* extractDomain(rule.BackendBase)
InitPoolKeyedByBase(host) ==
    /\ startup.phase = "init"
    /\ host \in startup.pending
    /\ clients' = [k \in (DOMAIN clients) \cup {config[host].BackendBase} |->
                     IF k = config[host].BackendBase THEN startup.made + 1 ELSE clients[k]]
    /\ startup' = [startup EXCEPT !.pending = @ \ {host}, !.made = @ + 1]
    /\ UNCHANGED <<config, reqs, hdr, url, gz, tr, dns>>

InitPoolStep(host) ==
    /\ startup.phase = "init"
    /\ host \in startup.pending
    /\ LET rule == config[host]
           domain == extractDomain(rule.BackendBase)
       IN  IF rule.BackendBase \in DOMAIN clients
           THEN /\ startup' = [startup EXCEPT !.pending = @ \ {host}]
                /\ UNCHANGED clients
           ELSE /\ clients' = [k \in (DOMAIN clients) \cup {domain} |->
                                 IF k = domain THEN startup.made + 1 ELSE clients[k]]
                /\ startup' = [startup EXCEPT !.pending = @ \ {host}, !.made = @ + 1]
    /\ UNCHANGED <<config, reqs, hdr, url, gz, tr, dns>>

\* NewProxyHandler returns and main starts the server with the handler
StartServing ==
    /\ startup.phase = "init"
    /\ startup.pending = {}
    /\ startup' = [startup EXCEPT !.phase = "serving"]
    /\ UNCHANGED <<config, clients, reqs, hdr, url, gz, tr, dns>>

\* ProxyHandler.getClientForDomain
getClientForDomain(backendBase) ==
    LET domain == extractDomain(backendBase)
    IN  IF domain \in DOMAIN clients THEN clients[domain] ELSE NilClient


\* a server that listens before the handler is built: requests arrive
\* while initializeClientPools is still running
ArriveDuringStartup ==
    /\ startup.phase \in {"init", "serving"}
    /\ Len(reqs) < MaxReqs
    /\ \E host \in HostHeaders : reqs' = Append(reqs, NewRequest(host))
    /\ UNCHANGED <<config, clients, startup, hdr, url, gz, tr, dns>>

\* the HTTP server accepts a request and calls ServeHTTP in a goroutine of
\* its own; main starts the server after NewProxyHandler has returned
Arrive ==
    /\ startup.phase = "serving"
    /\ Len(reqs) < MaxReqs
    /\ \E host \in HostHeaders : reqs' = Append(reqs, NewRequest(host))
    /\ UNCHANGED <<config, clients, startup, hdr, url, gz, tr, dns>>

\* ServeHTTP, lines 191-196: the routing key is the Host up to its first ':'
RoutingKey(host) ==
    With(Index(host, ":"), LAMBDA idx :
        IF idx # 0 THEN SubSeq(host, 1, idx - 1) ELSE host)

\* a handler that forwards also without a rule: it builds the Trace, records
\* the missing rule on it and answers as for any forwarding failure
RouteNotFoundForwards(i) ==
    /\ reqs[i].pc = "route"
    /\ RoutingKey(reqs[i].Host) \notin DOMAIN config
    /\ reqs' = [reqs EXCEPT
            ![i].key = RoutingKey(reqs[i].Host),
            ![i].trace = [NoTrace EXCEPT !.built = TRUE, !.Error = ErrRuleNotFound,
                                         !.RequestHeaders = reqs[i].Header],
            ![i].stages = Append(@, "FAILED"),
            ![i].pc = "finish"]
    /\ UNCHANGED <<config, clients, startup, hdr, url, gz, tr, dns>>

\* ServeHTTP, lines 196-201: no rule for the host
RouteNotFound(i) ==
    /\ reqs[i].pc = "route"
    /\ RoutingKey(reqs[i].Host) \notin DOMAIN config
    /\ reqs' = [reqs EXCEPT
            ![i].key = RoutingKey(reqs[i].Host),
            ![i].w = httpError(@, ErrRuleNotFound, StatusNotFound),
            ![i].pc = "done"]
    /\ UNCHANGED <<config, clients, startup, hdr, url, gz, tr, dns>>

\* ServeHTTP, lines 196-208: the rule is found and the backend URL is built
Route(i) ==
    /\ reqs[i].pc = "route"
    /\ RoutingKey(reqs[i].Host) \in DOMAIN config
    /\ LET rule == config[RoutingKey(reqs[i].Host)]
       IN  reqs' = [reqs EXCEPT
            ![i].key = RoutingKey(reqs[i].Host),
            ![i].rule = rule,
            ![i].targetURL = buildTransitBackendURL(rule, reqs[i].Path, reqs[i].RawQuery),
            ![i].stages = Append(@, "URL_BUILT"),
            ![i].pc = "readBody"]
    /\ UNCHANGED <<config, clients, startup, hdr, url, gz, tr, dns>>

\* forwardRequest, lines 278-286: the Trace is made and the inbound body read
ReadBody(i) ==
    /\ reqs[i].pc = "readBody"
    /\ LET trace == [NoTrace EXCEPT !.built = TRUE,
                                    !.BackendURL = reqs[i].targetURL,
                                    !.RequestHeaders = reqs[i].Header]
       IN  \/ reqs' = [reqs EXCEPT
                ![i].trace = [trace EXCEPT !.RequestBody = reqs[i].Body],
                ![i].bodyReads = @ + 1,
                ![i].stages = Append(@, "BODY_READ"),
                ![i].pc = "build"]
           \/ reqs' = [reqs EXCEPT
                ![i].trace = [trace EXCEPT !.Error = ErrReadBody],
                ![i].bodyReads = @ + 1,
                ![i].stages = Append(@, "FAILED"),
                ![i].pc = "finish"]
    /\ UNCHANGED <<config, clients, startup, hdr, url, gz, tr, dns>>

\* a forwarder that selects the pooled client before it builds the headers
BuildRequestPoolFirst(i) ==
    /\ reqs[i].pc = "build"
    /\ IF urlParse(reqs[i].targetURL).err
       THEN reqs' = [reqs EXCEPT
                ![i].trace.Error = ErrNewRequest,
                ![i].stages = Append(@, "FAILED"),
                ![i].pc = "finish"]
       ELSE \E extraOrder \in Orders(DOMAIN reqs[i].rule.Headers.Extra),
               setOrder \in Orders(DOMAIN reqs[i].rule.Headers.Set) :
                reqs' = [reqs EXCEPT
                    ![i].client = getClientForDomain(reqs[i].rule.BackendBase),
                    ![i].trace.TransitHeaders =
                        processHeaders(reqs[i].Header, reqs[i].rule, extraOrder, setOrder),
                    ![i].lookups = @ + 1,
                    ![i].stages = @ \o <<"POOL_SELECTED", "HEADERS_BUILT">>,
                    ![i].pc = "dispatch"]
    /\ UNCHANGED <<config, clients, startup, hdr, url, gz, tr, dns>>

\* forwardRequest, lines 288-298: http.NewRequest (it fails when the target
\* URL does not parse), processHeaders, getClientForDomain
BuildRequest(i) ==
    /\ reqs[i].pc = "build"
    /\ IF urlParse(reqs[i].targetURL).err
       THEN reqs' = [reqs EXCEPT
                ![i].trace.Error = ErrNewRequest,
                ![i].stages = Append(@, "FAILED"),
                ![i].pc = "finish"]
       ELSE \E extraOrder \in Orders(DOMAIN reqs[i].rule.Headers.Extra),
               setOrder \in Orders(DOMAIN reqs[i].rule.Headers.Set) :
                reqs' = [reqs EXCEPT
                    ![i].trace.TransitHeaders =
                        processHeaders(reqs[i].Header, reqs[i].rule, extraOrder, setOrder),
                    ![i].client = getClientForDomain(reqs[i].rule.BackendBase),
                    ![i].lookups = @ + 1,
                    ![i].stages = @ \o <<"HEADERS_BUILT", "POOL_SELECTED">>,
                    ![i].pc = "dispatch"]
    /\ UNCHANGED <<config, clients, startup, hdr, url, gz, tr, dns>>

\* a dispatch that is tried a second time when the first one fails
DispatchRetries(i) ==
    /\ reqs[i].pc = "dispatch"
    /\ reqs[i].client # NilClient
    /\ \/ \E resp \in Responses :
            reqs' = [reqs EXCEPT
                ![i].resp = resp,
                ![i].trace.StatusCode = resp.StatusCode,
                ![i].trace.ResponseHeaders = resp.Header,
                ![i].dispatches = @ + 1,
                ![i].stages = Append(@, "DISPATCHED"),
                ![i].pc = "readResp"]
       \/ reqs' = [reqs EXCEPT
                ![i].trace.Error = IF reqs[i].dispatches >= 1 THEN ErrDispatch ELSE @,
                ![i].dispatches = @ + 1,
                ![i].stages = IF reqs[i].dispatches >= 1 THEN Append(@, "FAILED") ELSE @,
                ![i].pc = IF reqs[i].dispatches >= 1 THEN "finish" ELSE "dispatch"]
    /\ UNCHANGED <<config, clients, startup, hdr, url, gz, tr, dns>>

\* a dispatch that on failure replaces the pooled client of the backend
DispatchResetsPool(i) ==
    /\ reqs[i].pc = "dispatch"
    /\ reqs[i].client # NilClient
    /\ \/ /\ \E resp \in Responses :
                reqs' = [reqs EXCEPT
                    ![i].resp = resp,
                    ![i].trace.StatusCode = resp.StatusCode,
                    ![i].trace.ResponseHeaders = resp.Header,
                    ![i].dispatches = @ + 1,
                    ![i].stages = Append(@, "DISPATCHED"),
                    ![i].pc = "readResp"]
          /\ UNCHANGED <<clients, startup>>
       \/ /\ reqs' = [reqs EXCEPT
                    ![i].trace.Error = ErrDispatch,
                    ![i].dispatches = @ + 1,
                    ![i].stages = Append(@, "FAILED"),
                    ![i].pc = "finish"]
          /\ clients' = [clients EXCEPT
                    ![extractDomain(reqs[i].rule.BackendBase)] = startup.made + 1]
          /\ startup' = [startup EXCEPT !.made = @ + 1]
    /\ UNCHANGED <<config, hdr, url, gz, tr, dns>>

\* forwardRequest, lines 299-305: client.Do(req), called once; a nil client
\* makes Do panic, which ends the handler with nothing written
Dispatch(i) ==
    /\ reqs[i].pc = "dispatch"
    /\ IF reqs[i].client = NilClient
       THEN reqs' = [reqs EXCEPT ![i].pc = "panic"]
       ELSE \/ \E resp \in Responses :
                reqs' = [reqs EXCEPT
                    ![i].resp = resp,
                    ![i].trace.StatusCode = resp.StatusCode,
                    ![i].trace.ResponseHeaders = resp.Header,
                    ![i].dispatches = @ + 1,
                    ![i].stages = Append(@, "DISPATCHED"),
                    ![i].pc = "readResp"]
            \/ reqs' = [reqs EXCEPT
                    ![i].trace.Error = ErrDispatch,
                    ![i].dispatches = @ + 1,
                    ![i].stages = Append(@, "FAILED"),
                    ![i].pc = "finish"]
    /\ UNCHANGED <<config, clients, startup, hdr, url, gz, tr, dns>>

\* forwardRequest, lines 307-312: the backend's body is read
ReadResponse(i) ==
    /\ reqs[i].pc = "readResp"
    /\ \/ reqs' = [reqs EXCEPT
                ![i].trace.ResponseBody = reqs[i].resp.Body,
                ![i].stages = Append(@, "RESPONSE_READ"),
                ![i].pc = "relay"]
       \/ reqs' = [reqs EXCEPT
                ![i].trace.Error = ErrReadResponse,
                ![i].stages = Append(@, "FAILED"),
                ![i].pc = "finish"]
    /\ UNCHANGED <<config, clients, startup, hdr, url, gz, tr, dns>>

\* a relay that writes the status line before it copies the headers
RelayStatusFirst(i) ==
    /\ reqs[i].pc = "relay"
    /\ \E ok \in WriteOutcomes(reqs[i].trace.ResponseBody) :
        reqs' = [reqs EXCEPT
            ![i].w = With(WriteHeader(@, reqs[i].resp.StatusCode), LAMBDA w1 :
                     With(CopyHeader(w1, reqs[i].resp.Header), LAMBDA w2 :
                        Write(w2, reqs[i].trace.ResponseBody, ok))),
            ![i].trace.Error = IF ok THEN @ ELSE ErrWrite,
            ![i].stages = Append(@, IF ok THEN "RELAYED" ELSE "FAILED"),
            ![i].pc = "finish"]
    /\ UNCHANGED <<config, clients, startup, hdr, url, gz, tr, dns>>

\* forwardRequest, lines 314-325: the headers are copied, the status is
\* written, the body is written; the write may fail
Relay(i) ==
    /\ reqs[i].pc = "relay"
    /\ \E ok \in WriteOutcomes(reqs[i].trace.ResponseBody) :
        reqs' = [reqs EXCEPT
            ![i].w = With(CopyHeader(@, reqs[i].resp.Header), LAMBDA w1 :
                     With(WriteHeader(w1, reqs[i].resp.StatusCode), LAMBDA w2 :
                        Write(w2, reqs[i].trace.ResponseBody, ok))),
            ![i].trace.Error = IF ok THEN @ ELSE ErrWrite,
            ![i].stages = Append(@, IF ok THEN "RELAYED" ELSE "FAILED"),
            ![i].pc = "finish"]
    /\ UNCHANGED <<config, clients, startup, hdr, url, gz, tr, dns>>

\* ServeHTTP, lines 211-218: the Trace is logged; an error on it is written
\* to the client with http.Error
Finish(i) ==
    /\ reqs[i].pc = "finish"
    /\ reqs' = [reqs EXCEPT
            ![i].w = IF reqs[i].trace.Error # Nil
                     THEN httpError(@, reqs[i].trace.Error, StatusInternalServerError)
                     ELSE @,
            ![i].pc = "done"]
    /\ UNCHANGED <<config, clients, startup, hdr, url, gz, tr, dns>>

Startup == \E host \in DOMAIN config : InitPoolStep(host)

\* main, lines 38-43: the signal is received, "server closed" is logged and
\* main returns; server.Shutdown is not called, and the return of main ends
\* the process with every goroutine in it
Exit ==
    /\ startup.phase = "serving"
    /\ startup' = [startup EXCEPT !.phase = "exited"]
    /\ UNCHANGED <<config, clients, reqs, hdr, url, gz, tr, dns>>

\* the handlers that run: none once the process has exited
Handlers == IF startup.phase = "serving" THEN 1..Len(reqs) ELSE {}

Next ==
    \/ Startup
    \/ StartServing
    \/ Arrive
    \/ \E i \in Handlers : RouteNotFound(i)
    \/ \E i \in Handlers : Route(i)
    \/ \E i \in Handlers : ReadBody(i)
    \/ \E i \in Handlers : BuildRequest(i)
    \/ \E i \in Handlers : Dispatch(i)
    \/ \E i \in Handlers : ReadResponse(i)
    \/ \E i \in Handlers : Relay(i)
    \/ \E i \in Handlers : Finish(i)
    \/ Exit

Spec == Init /\ [][Next]_vars


\* startup on its own, over a wider set of route tables
HostD == <<"d">>
PoolBases ==
    {BaseHttpB, <<"b">>, BaseBPath, BaseHttpB \o <<"/">>, SchemeHTTPS \o <<"b">>,
     BaseBPort, SchemeHTTPS \o <<"c">>, BaseBad}
PoolTables ==
    UNION {[hosts -> {RuleC(base) : base \in PoolBases}] :
            hosts \in (SUBSET {HostA, HostC, HostD}) \ {{}}}

SpecPools == StartupInit(PoolTables) /\ [][Startup \/ StartServing]_vars

----------------------------------------------------------------------------
(* Claims about the server (Spec, SpecPools) *)

Done(i) == reqs[i].pc = "done"

\* what http.Error leaves in the body of a response
ErrorBody(error) == << <<error, "\n">> >>

\* C4: every forwarding failure, at any stage, reaches the client as a
\* 500-class response whose body is the error text, with Trace.Error set;
\* also a failure after the backend's status and headers were written.
C4_FailureIs500 ==
    \A i \in 1..Len(reqs) :
        (Done(i) /\ reqs[i].stages # <<>>
                 /\ reqs[i].stages[Len(reqs[i].stages)] = "FAILED") =>
            /\ reqs[i].trace.Error # Nil
            /\ reqs[i].w.status \in 500..599
            /\ reqs[i].w.body = ErrorBody(reqs[i].trace.Error)

\* the Host of a request without its port: the text before a last ':' that
\* only digits follow
HostWithoutPort(host) ==
    LET col == LastIndex(host, ":")
    IN  IF col # 0 /\ col < Len(host) /\ \A j \in (col + 1)..Len(host) : IsDigit(host[j])
        THEN SubSeq(host, 1, col - 1)
        ELSE host

\* C5: a request whose Host, port stripped, has no route ends with the 404
\* error response; no Trace is built for it, and it never looks up a pool,
\* reads the inbound body or dispatches to a backend.
C5_NoRouteStops ==
    \A i \in 1..Len(reqs) :
        HostWithoutPort(reqs[i].Host) \notin DOMAIN config =>
            /\ reqs[i].pc \in {"route", "done"}
            /\ ~reqs[i].trace.built
            /\ reqs[i].lookups = 0 /\ reqs[i].bodyReads = 0 /\ reqs[i].dispatches = 0
            /\ Done(i) => /\ reqs[i].w.status = 404
                          /\ reqs[i].w.body = ErrorBody(ErrRuleNotFound)

\* C5, its case: a request for an unknown host, with a port, was answered
C5_Witness ==
    \E i \in 1..Len(reqs) :
        /\ reqs[i].Host = <<"z", ":", "8">>
        /\ Done(i)
        /\ reqs[i].w.status = 404

\* the host that requests of a rule are sent to: the authority of the URL
\* built for the rule
RequestHost(rule) ==
    LET target == buildTransitBackendURL(rule, <<"/">>, <<>>)
        rest == IF SubSeq(target, 1, 8) = SchemeHTTPS
                THEN SubSeq(target, 9, Len(target))
                ELSE SubSeq(target, 8, Len(target))
    IN  SubSeq(rest, 1, Index(rest, "/") - 1)

\* C6: after NewProxyHandler has returned, every route's rule resolves
\* through getClientForDomain to a pooled client, not nil; two routes with
\* the same backend host resolve to the same client, two routes with
\* different backend hosts to different clients.
C6_OnePoolPerBackendHost ==
    startup.phase = "serving" =>
        \A h1, h2 \in DOMAIN config :
            /\ getClientForDomain(config[h1].BackendBase) # NilClient
            /\ getClientForDomain(config[h1].BackendBase) \in {clients[k] : k \in DOMAIN clients}
            /\ (RequestHost(config[h1]) = RequestHost(config[h2]))
                <=> (getClientForDomain(config[h1].BackendBase)
                        = getClientForDomain(config[h2].BackendBase))

\* C6, its case: three routes, two of them on one backend host that is
\* written with a scheme in one and with a trailing path and no scheme in
\* the other
C6_Witness ==
    /\ startup.phase = "serving"
    /\ DOMAIN config = {HostA, HostC, HostD}
    /\ config[HostA].BackendBase = BaseHttpB
    /\ config[HostC].BackendBase = BaseBPath
    /\ config[HostD].BackendBase = BaseBPort
    /\ getClientForDomain(BaseHttpB) = getClientForDomain(BaseBPath)
    /\ getClientForDomain(BaseHttpB) # getClientForDomain(BaseBPort)
    /\ Cardinality(DOMAIN clients) = 2

\* C7: once NewProxyHandler has returned, no step changes the clients map
\* or the route table.
C7_RegistryFrozen ==
    [][startup.phase = "serving" => (clients' = clients /\ config' = config)]_vars

\* C7, its case: two requests in flight at once, one whose dispatch failed
\* and was answered, one about to relay its response
C7_Witness ==
    /\ startup.phase = "serving"
    /\ \E i, j \in 1..Len(reqs) :
        /\ Done(i) /\ reqs[i].trace.Error = ErrDispatch
        /\ reqs[j].pc = "relay"
    /\ DOMAIN clients # {}

\* C8: on a successful round trip the handler copies the backend's headers,
\* then writes its status, then its whole body; status, headers and body
\* that the client receives are the backend's.
C8_RelayUnchanged ==
    \A i \in 1..Len(reqs) :
        (Done(i) /\ reqs[i].trace.built /\ reqs[i].trace.Error = Nil) =>
            /\ reqs[i].w.calls = << <<"Header", reqs[i].resp.Header>>,
                                    <<"WriteHeader", reqs[i].resp.StatusCode>>,
                                    <<"Write", reqs[i].resp.Body>> >>
            /\ reqs[i].w.status = reqs[i].resp.StatusCode
            /\ reqs[i].w.sent = reqs[i].resp.Header
            /\ reqs[i].w.body = <<reqs[i].resp.Body>>

\* C8, its case: a backend answer with a header and a body was relayed
C8_Witness ==
    \E i \in 1..Len(reqs) :
        /\ Done(i)
        /\ reqs[i].trace.Error = Nil
        /\ reqs[i].resp.StatusCode = 200
        /\ reqs[i].w.sent = XA :> <<<<"r">>>>
        /\ reqs[i].w.body = <<"ok">>

\* C10: no retry.  A request is dispatched to a backend at most once, and a
\* failed dispatch is the failure of the request: the error is on the Trace,
\* FAILED follows POOL_SELECTED, nothing more is dispatched.
C10_NoRetry ==
    \A i \in 1..Len(reqs) :
        /\ reqs[i].dispatches <= 1
        /\ reqs[i].trace.Error = ErrDispatch =>
            /\ reqs[i].dispatches = 1
            /\ reqs[i].pc \in {"finish", "done"}
            /\ reqs[i].stages =
                <<"URL_BUILT", "BODY_READ", "HEADERS_BUILT", "POOL_SELECTED", "FAILED">>

\* C10, its case: a request whose one dispatch failed, answered
C10_Witness ==
    \E i \in 1..Len(reqs) :
        /\ Done(i)
        /\ reqs[i].trace.Error = ErrDispatch
        /\ reqs[i].dispatches = 1
        /\ reqs[i].w.status = 500

\* C11: graceful shutdown.  When the process has exited on a signal, every
\* request that was in flight has reached its end: answered (relayed or
\* failed), none cut off between two stages.
C11_ExitAfterInFlight ==
    startup.phase = "exited" =>
        \A i \in 1..Len(reqs) : reqs[i].pc \in {"done", "panic"}

----------------------------------------------------------------------------
(* decompress and gzipReaderPool (proxy.go, lines 18 and 36-45) *)

\* most decompress calls the model lets run
MaxGzCalls == 3

\* A gzip stream is modelled as a header byte "G", the payload, and a
\* trailer byte "T"; gzip.Reader.Reset reads the header, ReadAll the rest.
GzHeaderOK(b) == Len(b) >= 1 /\ b[1] = "G"
GzComplete(b) == GzHeaderOK(b) /\ Len(b) >= 2 /\ b[Len(b)] = "T"
GzPayload(b) ==
    IF GzComplete(b) THEN SubSeq(b, 2, Len(b) - 1) ELSE SubSeq(b, 2, Len(b))

\* bodies handed to decompress: not gzip, a whole stream, a cut stream
GzBodies == {<<"x">>, <<"G", "h", "T">>, <<"G", "j">>}

\* new(gzip.Reader)
NewGzipReader == [r |-> <<>>, err |-> FALSE, reset |-> FALSE]

NoReader == 0

NewGzCall(body) ==
    [body |-> body, pc |-> "get", reader |-> NoReader, readFrom |-> <<>>,
     out |-> <<>>, err |-> FALSE, put |-> FALSE]

GzInit ==
    /\ GzIdle
    /\ ServerIdle /\ HdrIdle /\ UrlIdle /\ TrIdle /\ DnsIdle

\* a goroutine calls decompress(body)
GzCall ==
    /\ Len(gz.calls) < MaxGzCalls
    /\ \E body \in GzBodies : gz' = [gz EXCEPT !.calls = Append(@, NewGzCall(body))]
    /\ UNCHANGED <<config, clients, startup, reqs, hdr, url, tr, dns>>

\* a Get that hands out a pooled reader and leaves it in the pool
GzGetPeek(c) ==
    /\ gz.calls[c].pc = "get"
    /\ \/ \E id \in gz.pool :
            gz' = [gz EXCEPT !.calls[c].reader = id, !.calls[c].pc = "reset"]
       \/ gz' = [gz EXCEPT !.readers = Append(@, NewGzipReader),
                           !.calls[c].reader = Len(gz.readers) + 1,
                           !.calls[c].pc = "reset"]
    /\ UNCHANGED <<config, clients, startup, reqs, hdr, url, tr, dns>>

\* line 37, gzipReaderPool.Get(): a reader is taken out of the pool, or New
\* makes one (the pool may be empty for this goroutine at any time)
GzGet(c) ==
    /\ gz.calls[c].pc = "get"
    /\ \/ \E id \in gz.pool :
            gz' = [gz EXCEPT !.pool = @ \ {id},
                             !.calls[c].reader = id, !.calls[c].pc = "reset"]
       \/ gz' = [gz EXCEPT !.readers = Append(@, NewGzipReader),
                           !.calls[c].reader = Len(gz.readers) + 1,
                           !.calls[c].pc = "reset"]
    /\ UNCHANGED <<config, clients, startup, reqs, hdr, url, tr, dns>>

\* line 40, reader.Reset(bytes.NewReader(body)): the reader forgets what it
\* read before, takes the body as its source and reads the gzip header
GzReset(c) ==
    /\ gz.calls[c].pc = "reset"
    /\ LET ok == GzHeaderOK(gz.calls[c].body)
       IN  gz' = [gz EXCEPT
                !.readers[gz.calls[c].reader] =
                    [r |-> gz.calls[c].body, err |-> ~ok, reset |-> TRUE],
                !.calls[c].err = ~ok,
                !.calls[c].pc = IF ok THEN "read" ELSE "return"]
    /\ UNCHANGED <<config, clients, startup, reqs, hdr, url, tr, dns>>

\* line 44, io.ReadAll(reader): the payload of the reader's source, with an
\* error when the stream ends before its trailer
GzRead(c) ==
    /\ gz.calls[c].pc = "read"
    /\ LET reader == gz.readers[gz.calls[c].reader]
       IN  gz' = [gz EXCEPT
                !.calls[c].readFrom = reader.r,
                !.calls[c].out = GzPayload(reader.r),
                !.calls[c].err = ~GzComplete(reader.r),
                !.calls[c].pc = "return"]
    /\ UNCHANGED <<config, clients, startup, reqs, hdr, url, tr, dns>>

\* line 38, the deferred gzipReaderPool.Put(reader), run when decompress
\* returns on either path
GzReturn(c) ==
    /\ gz.calls[c].pc = "return"
    /\ gz' = [gz EXCEPT !.pool = @ \cup {gz.calls[c].reader},
                        !.calls[c].put = TRUE,
                        !.calls[c].pc = "done"]
    /\ UNCHANGED <<config, clients, startup, reqs, hdr, url, tr, dns>>

\* sync.Pool may drop a pooled item at any time
GzDrop ==
    /\ \E id \in gz.pool : gz' = [gz EXCEPT !.pool = @ \ {id}]
    /\ UNCHANGED <<config, clients, startup, reqs, hdr, url, tr, dns>>

GzNext ==
    \/ GzCall
    \/ \E c \in 1..Len(gz.calls) : GzGet(c)
    \/ \E c \in 1..Len(gz.calls) : GzReset(c)
    \/ \E c \in 1..Len(gz.calls) : GzRead(c)
    \/ \E c \in 1..Len(gz.calls) : GzReturn(c)
    \/ GzDrop

SpecGzip == GzInit /\ [][GzNext]_vars

\* the decompress call as a function of its body alone
decompress(body) ==
    IF ~GzHeaderOK(body) THEN [out |-> <<>>, err |-> TRUE]
    ELSE [out |-> GzPayload(body), err |-> ~GzComplete(body)]

GzHolds(c) == gz.calls[c].pc \in {"reset", "read", "return"}

\* C12: under any interleaving of decompress calls a pooled reader is held
\* by at most one call and is not in the pool while held; a call reads only
\* from a reader that was reset from its own body; a finished call has put
\* its reader back, also after a failed Reset; what a call returns is a
\* function of its own body.
C12_ReaderIsolation ==
    \A c \in 1..Len(gz.calls) :
        /\ GzHolds(c) =>
            /\ gz.calls[c].reader \notin gz.pool
            /\ \A d \in 1..Len(gz.calls) :
                (d # c /\ GzHolds(d)) => gz.calls[d].reader # gz.calls[c].reader
        /\ gz.calls[c].pc = "read" =>
            /\ gz.readers[gz.calls[c].reader].reset
            /\ gz.readers[gz.calls[c].reader].r = gz.calls[c].body
        /\ gz.calls[c].pc = "done" =>
            /\ gz.calls[c].put
            /\ [out |-> gz.calls[c].out, err |-> gz.calls[c].err]
                    = decompress(gz.calls[c].body)
            /\ (~gz.calls[c].err) => gz.calls[c].readFrom = gz.calls[c].body

\* C12, its case: a call whose Reset failed has returned; its reader is
\* reused by a second call, which is reading while a third call reads from
\* a reader of its own, each from a different body
C12_Witness ==
    /\ Len(gz.calls) = 3
    /\ gz.calls[1].pc = "done" /\ gz.calls[1].body = <<"x">>
    /\ gz.calls[1].err /\ gz.calls[1].put
    /\ gz.calls[2].pc = "read" /\ gz.calls[2].reader = gz.calls[1].reader
    /\ gz.calls[2].body = <<"G", "h", "T">>
    /\ gz.calls[3].pc = "read" /\ gz.calls[3].body = <<"G", "j">>

----------------------------------------------------------------------------
(* ProxyTrace.String (proxy.go, lines 47-127) *)

\* most renderings of one trace
MaxRenders == 2

\* the characters of the rendered strings in byte order, for sort.Strings
ByteOrder ==
    <<" ", ",", "-", "/", "0", "1", "2", "3", "4", "5", "6", "7", "8", "9",
      ":", ";", "A", "B", "C", "E", "G", "H", "I", "O", "P", "S", "T", "U",
      "X", "Z", "[", "]", "a", "b", "c", "d", "e", "f", "g", "h", "i", "j",
      "k", "l", "m", "n", "o", "p", "r", "s", "t", "u", "w", "x", "y", "z">>

Rank(c) == CHOOSE i \in 1..Len(ByteOrder) : ByteOrder[i] = c

\* a < b for Go strings: byte by byte, a proper prefix first
StrLess(a, b) ==
    With({i \in 1..Len(a) : i <= Len(b) /\ a[i] # b[i]}, LAMBDA diff :
        IF diff = {} THEN Len(a) < Len(b)
        ELSE With(CHOOSE i \in diff : \A j \in diff : i <= j, LAMBDA k :
                Rank(a[k]) < Rank(b[k])))

\* sort.Strings
RECURSIVE SortStrings(_)
SortStrings(lines) ==
    IF Len(lines) <= 1 THEN lines
    ELSE With(CHOOSE i \in 1..Len(lines) :
                \A j \in 1..Len(lines) : ~StrLess(lines[j], lines[i]), LAMBDA m :
            <<lines[m]>> \o
            SortStrings([i \in 1..(Len(lines) - 1) |->
                            IF i < m THEN lines[i] ELSE lines[i + 1]]))

\* strings.Join
RECURSIVE Join(_, _)
Join(elems, sep) ==
    IF Len(elems) = 0 THEN <<>>
    ELSE IF Len(elems) = 1 THEN elems[1]
    ELSE elems[1] \o sep \o Join(Tail(elems), sep)

\* strings.Contains
Contains(str, substr) ==
    \E i \in 1..(Len(str) - Len(substr) + 1) :
        SubSeq(str, i, i + Len(substr) - 1) = substr

\* the decimal digits of n (fmt %d)
RECURSIVE Itoa(_)
Itoa(n) ==
    IF n < 10 THEN <<ByteOrder[n + 5]>>
    ELSE Itoa(n \div 10) \o <<ByteOrder[(n % 10) + 5]>>

\* humanize.IBytes for sizes below 1 KiB: "<n> B"
IBytes(n) == Itoa(n) \o <<" ", "B">>

\* lines 48-53: "key: v1,v2" per header in the order the map is iterated,
\* with the lines left in that order
headerStringUnsorted(header, order) ==
    Join([i \in 1..Len(order) |->
            order[i] \o <<":", " ">> \o Join(header[order[i]], <<",">>)],
         <<";", " ">>)

\* lines 48-53 (55-60, 81-86): "key: v1,v2" per header in the order the map
\* is iterated, sort.Strings, joined with "; "
headerString(header, order) ==
    Join(SortStrings([i \in 1..Len(order) |->
            order[i] \o <<":", " ">> \o Join(header[order[i]], <<",">>)]),
         <<";", " ">>)

ContentEncoding ==
    <<"C", "o", "n", "t", "e", "n", "t", "-", "E", "n", "c", "o", "d", "i", "n", "g">>
ApplicationJSON ==
    <<"a", "p", "p", "l", "i", "c", "a", "t", "i", "o", "n", "/", "j", "s", "o", "n">>
FormURLEncoded ==
    <<"a", "p", "p", "l", "i", "c", "a", "t", "i", "o", "n", "/", "x", "-", "w", "w", "w",
      "-", "f", "o", "r", "m", "-", "u", "r", "l", "e", "n", "c", "o", "d", "e", "d">>
TextSlash == <<"t", "e", "x", "t", "/">>
Gzip == <<"g", "z", "i", "p">>

\* lines 63-65: the content type is one that is logged as text
IsTextType(contentType) ==
    With(ToLower(contentType), LAMBDA ct :
        \/ Contains(ct, ApplicationJSON)
        \/ Contains(ct, FormURLEncoded)
        \/ Contains(ct, TextSlash))

\* "[gzip <type> <size>]" and "[<type> <size>]"
GzipPlaceholder(contentType, n) ==
    <<"[">> \o Gzip \o <<" ">> \o contentType \o <<" ">> \o IBytes(n) \o <<"]">>
Placeholder(contentType, n) ==
    <<"[">> \o contentType \o <<" ">> \o IBytes(n) \o <<"]">>

\* a body string that never decompresses: a text body is logged as it is
bodyStringRaw(header, body) ==
    With(Get(header, ContentType), LAMBDA contentType :
        IF IsTextType(contentType)
        THEN [text |-> body, decompressions |-> 0]
        ELSE IF contentType # <<>> /\ Len(body) > 0
        THEN [text |-> Placeholder(contentType, Len(body)), decompressions |-> 0]
        ELSE [text |-> <<>>, decompressions |-> 0])

\* lines 62-79 (88-105 for the response): the body as it is logged, and the
\* number of decompress calls made for it
bodyString(header, body) ==
    With(Get(header, ContentType), LAMBDA contentType :
        IF IsTextType(contentType)
        THEN IF Contains(ToLower(Get(header, ContentEncoding)), Gzip)
             THEN With(decompress(body), LAMBDA d :
                    [text |-> IF ~d.err THEN d.out
                              ELSE GzipPlaceholder(contentType, Len(body)),
                     decompressions |-> 1])
             ELSE [text |-> body, decompressions |-> 0]
        ELSE IF contentType # <<>> /\ Len(body) > 0
        THEN [text |-> Placeholder(contentType, Len(body)), decompressions |-> 0]
        ELSE [text |-> <<>>, decompressions |-> 0])

\* the labels of the segments (Chinese in the source)
ReqHeaderLabel == " | request headers: "
TrsHeaderLabel == " | transit headers: "
ReqBodyLabel   == " | request body: "
RspHeaderLabel == " | response headers: "
RspBodyLabel   == " | response body: "
Labels == {ReqHeaderLabel, TrsHeaderLabel, ReqBodyLabel, RspHeaderLabel, RspBodyLabel}

\* lines 110-124: a segment is written when its content is not empty
Segment(label, content) == IF content # <<>> THEN <<label>> \o content ELSE <<>>

\* ProxyTrace.String: the line, a sequence of characters and of the fixed
\* texts of line 108 and of the labels; with it the decompress calls made
\* for the request body and for the response body
String(p, reqOrder, trsOrder, rspOrder) ==
    With(headerString(p.RequestHeaders, reqOrder), LAMBDA reqHeaderString :
    With(headerString(p.TransitHeaders, trsOrder), LAMBDA trsHeaderString :
    With(bodyString(p.RequestHeaders, p.RequestBody), LAMBDA reqBody :
    With(headerString(p.ResponseHeaders, rspOrder), LAMBDA rspHeaderString :
    With(bodyString(p.ResponseHeaders, p.ResponseBody), LAMBDA rspBody :
        [out |->
            <<p.Method, " ", p.RequestURL, " -> ", p.BackendURL, " | took: ",
              p.Duration, " | status: ">> \o Itoa(p.StatusCode)
            \o Segment(ReqHeaderLabel, reqHeaderString)
            \o (IF trsHeaderString # reqHeaderString
                THEN Segment(TrsHeaderLabel, trsHeaderString) ELSE <<>>)
            \o Segment(ReqBodyLabel, reqBody.text)
            \o Segment(RspHeaderLabel, rspHeaderString)
            \o Segment(RspBodyLabel, rspBody.text),
         reqDecompressions |-> reqBody.decompressions,
         rspDecompressions |-> rspBody.decompressions])))))

\* the traces that are rendered
CtTextX == TextSlash \o <<"x">>
CtTextUpper == <<"T", "E", "X", "T", "/", "X">>
CtBinary == <<"b", "/", "x">>
EncGzipUpper == <<"G", "Z", "I", "P">>
EncBr == <<"b", "r">>

HeaderOf(contentTypes, encodings, more) ==
    [k \in {ContentType : x \in contentTypes} \cup {ContentEncoding : x \in encodings}
           \cup DOMAIN more |->
        IF k = ContentType THEN <<CHOOSE x \in contentTypes : TRUE>>
        ELSE IF k = ContentEncoding THEN <<CHOOSE x \in encodings : TRUE>>
        ELSE more[k]]

TrBodies == {<<>>, <<"h", "i">>, <<"G", "h", "T">>, <<"G", "j">>}

TrRequestHeaders ==
    {HeaderOf(ct, enc, XA :> <<<<"c">>, <<"d">>>>) :
        ct \in {{}, {CtTextX}, {CtTextUpper}, {ApplicationJSON}, {CtBinary}},
        enc \in {{}, {Gzip}, {EncGzipUpper}, {EncBr}}}

TrResponseHeaders ==
    {HeaderOf({CtTextX}, {Gzip}, NoMap), HeaderOf({CtBinary}, {}, NoMap),
     HeaderOf({}, {Gzip}, NoMap)}

TrResponseBodies == {<<>>, <<"G", "h", "T">>}

Traces ==
    {[Method |-> "GET", RequestURL |-> "a/u", BackendURL |-> "http://b/u",
      Duration |-> "1ms", StatusCode |-> 200,
      RequestHeaders |-> reqHeader,
      TransitHeaders |-> IF same THEN reqHeader ELSE HostKey :> <<<<"b">>>>,
      ResponseHeaders |-> rspHeader,
      RequestBody |-> reqBody, ResponseBody |-> rspBody] :
        reqHeader \in TrRequestHeaders, same \in BOOLEAN, reqBody \in TrBodies,
        rspHeader \in TrResponseHeaders, rspBody \in TrResponseBodies}

TrInit ==
    /\ tr \in {[p |-> p, completed |-> p, renders |-> <<>>] : p \in Traces}
    /\ ServerIdle /\ HdrIdle /\ UrlIdle /\ GzIdle /\ DnsIdle

\* log.Debug(trace) and any later rendering: p.String() is called; the maps
\* are iterated in some order; the trace is only read
TrRender ==
    /\ Len(tr.renders) < MaxRenders
    /\ \E reqOrder \in Orders(DOMAIN tr.p.RequestHeaders),
          trsOrder \in Orders(DOMAIN tr.p.TransitHeaders),
          rspOrder \in Orders(DOMAIN tr.p.ResponseHeaders) :
            tr' = [tr EXCEPT !.renders =
                        Append(@, String(tr.p, reqOrder, trsOrder, rspOrder))]
    /\ UNCHANGED <<config, clients, startup, reqs, hdr, url, gz, dns>>

TrNext == TrRender

SpecTrace == TrInit /\ [][TrNext]_vars

----------------------------------------------------------------------------
(* Claims about the trace renderer (SpecTrace) *)

\* the content of the segment of a rendered line under a label, <<>> when
\* the line has no such segment
SegmentOf(out, label) ==
    LET at == {i \in 1..Len(out) : out[i] = label}
    IN  IF at = {} THEN <<>>
        ELSE LET i == CHOOSE x \in at : TRUE
                 ends == {j \in (i + 1)..Len(out) : out[j] \in Labels}
                 j == IF ends = {} THEN Len(out) + 1
                      ELSE CHOOSE x \in ends : \A y \in ends : x <= y
             IN  SubSeq(out, i + 1, j - 1)

HasSegment(out, label) == \E i \in 1..Len(out) : out[i] = label

\* C13: rendering a completed Trace twice gives the same bytes, whatever the
\* order in which the header maps are iterated, and leaves the Trace as it
\* was.
C13_RenderIdempotent ==
    /\ \A i, j \in 1..Len(tr.renders) : tr.renders[i].out = tr.renders[j].out
    /\ tr.renders # <<>> => tr.p = tr.completed

\* C13, its case: a trace with three request headers was rendered twice
C13_Witness ==
    /\ Len(tr.renders) = 2
    /\ Cardinality(DOMAIN tr.p.RequestHeaders) = 3
    /\ tr.p.TransitHeaders = tr.p.RequestHeaders
    /\ ~HasSegment(tr.renders[2].out, TrsHeaderLabel)
    /\ HasSegment(tr.renders[2].out, ReqHeaderLabel)

\* C14: a Trace with an empty request body is rendered without a request
\* body segment, and one with an empty response body without a response
\* body segment, whatever Content-Type and Content-Encoding say.
C14_EmptyBodyNoSegment ==
    \A i \in 1..Len(tr.renders) :
        /\ tr.p.RequestBody = <<>> => ~HasSegment(tr.renders[i].out, ReqBodyLabel)
        /\ tr.p.ResponseBody = <<>> => ~HasSegment(tr.renders[i].out, RspBodyLabel)

\* what the rendering policy asks for a text body with gzip encoding
GzipTextRendering(header, body) ==
    IF GzComplete(body) THEN GzPayload(body)
    ELSE GzipPlaceholder(Get(header, ContentType), Len(body))

IsGzipText(header) ==
    /\ IsTextType(Get(header, ContentType))
    /\ Contains(ToLower(Get(header, ContentEncoding)), Gzip)

\* C15: a body with a JSON, form or text/* content type and a gzip content
\* encoding is rendered as its decompressed text when it decompresses and
\* as "[gzip <type> <size>]" when it does not; it is decompressed at most
\* once per rendering, and the raw bodies on the Trace stay as they were.
C15_GzipTextBody ==
    \A i \in 1..Len(tr.renders) :
        /\ IsGzipText(tr.p.RequestHeaders) =>
            /\ SegmentOf(tr.renders[i].out, ReqBodyLabel)
                    = GzipTextRendering(tr.p.RequestHeaders, tr.completed.RequestBody)
            /\ tr.renders[i].reqDecompressions <= 1
        /\ IsGzipText(tr.p.ResponseHeaders) =>
            /\ SegmentOf(tr.renders[i].out, RspBodyLabel)
                    = GzipTextRendering(tr.p.ResponseHeaders, tr.completed.ResponseBody)
            /\ tr.renders[i].rspDecompressions <= 1
        /\ tr.p.RequestBody = tr.completed.RequestBody
        /\ tr.p.ResponseBody = tr.completed.ResponseBody

\* C15, its case: a gzip JSON request body rendered as its text, and a
\* response body that does not decompress rendered as the placeholder
C15_Witness ==
    /\ Len(tr.renders) = 1
    /\ Get(tr.p.RequestHeaders, ContentType) = ApplicationJSON
    /\ Get(tr.p.RequestHeaders, ContentEncoding) = EncGzipUpper
    /\ tr.p.RequestBody = <<"G", "h", "T">>
    /\ SegmentOf(tr.renders[1].out, ReqBodyLabel) = <<"h">>
    /\ tr.renders[1].reqDecompressions = 1
    /\ tr.p.ResponseBody = <<>>
    /\ SegmentOf(tr.renders[1].out, RspBodyLabel)
            = GzipPlaceholder(CtTextX, 0)

----------------------------------------------------------------------------
(* The dialers of the pooled clients (the proxy variant with a resolve   *)
(* override: initializeClientPools, createIPDialer, createDnsResolvDialer, *)
(* resolveHostWithDNS)                                                     *)

\* most requests that dial on the one route of the model
MaxDials == 2

\* net.ParseIP(s) != nil: a dotted quad, or colons with hexadecimal digits
ParseIP(s) ==
    \/ /\ Cardinality({i \in 1..Len(s) : s[i] = "."}) = 3
       /\ \A i \in 1..Len(s) : IsDigit(s[i]) \/ s[i] = "."
       /\ s[1] # "." /\ s[Len(s)] # "."
       /\ \A i \in 1..(Len(s) - 1) : ~(s[i] = "." /\ s[i + 1] = ".")
    \/ /\ Cardinality({i \in 1..Len(s) : s[i] = ":"}) >= 2
       /\ \A i \in 1..Len(s) :
            IsDigit(s[i]) \/ s[i] \in {":", "a", "b", "c", "d", "e", "f"}

\* net.SplitHostPort: host and port around the last ':', the host without
\* its brackets
SplitHostPort(addr) ==
    With(LastIndex(addr, ":"), LAMBDA col :
        IF col = 0 \/ (addr[1] = "[" /\ (col < 3 \/ addr[col - 1] # "]"))
        THEN [err |-> TRUE, host |-> <<>>, port |-> <<>>]
        ELSE [err |-> FALSE,
              host |-> IF addr[1] = "[" THEN SubSeq(addr, 2, col - 2)
                       ELSE SubSeq(addr, 1, col - 1),
              port |-> SubSeq(addr, col + 1, Len(addr))])

\* net.JoinHostPort
JoinHostPort(host, port) ==
    IF Index(host, ":") # 0 THEN <<"[">> \o host \o <<"]", ":">> \o port
    ELSE host \o <<":">> \o port

\* a selection that prefers the DNS server when both are configured
DialerForDNSFirst(resolve) ==
    IF resolve.DNS # <<>> THEN "dns"
    ELSE IF resolve.IP # <<>> THEN "ip"
    ELSE "default"

\* lines 255-262 of initializeClientPools: transport.DialContext
DialerFor(resolve) ==
    IF resolve.IP # <<>> THEN "ip"
    ELSE IF resolve.DNS # <<>> THEN "dns"
    ELSE "default"

\* resolve overrides, addresses that the transport dials, DNS answers
IP4 == <<"1", ".", "2", ".", "3", ".", "4">>
IP4b == <<"5", ".", "6", ".", "7", ".", "8">>
IP6 == <<":", ":", "1">>
Port80 == <<"8", "0">>
Port53 == <<"5", "3">>
ResolveIPs == {<<>>, IP4, <<"b">>}
ResolveDNSs == {<<>>, <<"8", ".", "8", ".", "8", ".", "8">>, <<"d", ":", "5", "3">>}
DialAddrs ==
    {<<"b", ":">> \o Port80, <<"c", ":">> \o Port80, IP4 \o <<":">> \o Port80,
     <<"[">> \o IP6 \o <<"]", ":">> \o Port80}

RR(type, ip) == [type |-> type, ip |-> ip]
CNAME == RR("CNAME", <<>>)
DnsAnswers ==
    {<<>>, <<CNAME>>, <<RR("A", IP4)>>, <<CNAME, RR("A", IP4b), RR("A", IP4)>>,
     <<RR("AAAA", IP6)>>, <<CNAME, RR("AAAA", IP6)>>}

\* what c.Exchange may give: a transport error, a response with an error
\* code, a successful response with answers
DnsReplies ==
    {[err |-> TRUE, rcodeSuccess |-> FALSE, Answer |-> <<>>],
     [err |-> FALSE, rcodeSuccess |-> FALSE, Answer |-> <<>>]}
    \cup {[err |-> FALSE, rcodeSuccess |-> TRUE, Answer |-> a] : a \in DnsAnswers}

\* the first answer of a type, <<>> when there is none (the loops at lines
\* 169-175 and 186-192)
FirstOfType(answer, type) ==
    With({i \in 1..Len(answer) : answer[i].type = type}, LAMBDA at :
        IF at = {} THEN <<>>
        ELSE answer[CHOOSE i \in at : \A j \in at : i <= j].ip)

DialInit ==
    /\ dns \in {[pc |-> "construct", resolve |-> [IP |-> ip, DNS |-> server],
                 addr |-> addr, dialer |-> "none", assigned |-> 0,
                 target |-> <<>>, err |-> FALSE, connected |-> FALSE,
                 replyA |-> <<>>, replyAAAA |-> <<>>, log |-> <<>>,
                 dial |-> 1, answers |-> <<>>] :
                    ip \in ResolveIPs, server \in ResolveDNSs, addr \in DialAddrs}
    /\ ServerIdle /\ HdrIdle /\ UrlIdle /\ GzIdle /\ TrIdle

\* initializeClientPools, one route: the transport, its dialer, the client
DialConstruct ==
    /\ dns.pc = "construct"
    /\ dns' = [dns EXCEPT !.dialer = DialerFor(dns.resolve),
                          !.assigned = IF DialerFor(dns.resolve) = "default" THEN 0 ELSE 1,
                          !.pc = "ready"]
    /\ UNCHANGED <<config, clients, startup, reqs, hdr, url, gz, tr>>

\* the name that resolveHostWithDNS sends its queries to (lines 150-152)
DnsServerAddr(dnsServer) ==
    IF ParseIP(dnsServer) THEN JoinHostPort(dnsServer, Port53) ELSE dnsServer

\* the transport calls DialContext(ctx, network, addr) of the pool:
\* the default dialer dials addr; the dialer of createIPDialer dials the
\* configured address with the port of addr; the dialer of
\* createDnsResolvDialer dials addr when its host is an IP and calls
\* resolveHostWithDNS otherwise
DialStart ==
    /\ dns.pc = "ready"
    /\ dns' = With(SplitHostPort(dns.addr), LAMBDA hp :
        IF dns.dialer = "default"
        THEN [dns EXCEPT !.target = dns.addr, !.pc = "connect"]
        ELSE IF hp.err
        THEN [dns EXCEPT !.err = TRUE, !.pc = "done"]
        ELSE IF dns.dialer = "ip"
        THEN [dns EXCEPT !.target = JoinHostPort(dns.resolve.IP, hp.port),
                                !.pc = "connect"]
        ELSE IF ParseIP(hp.host)
        THEN [dns EXCEPT !.target = dns.addr, !.pc = "connect"]
        ELSE [dns EXCEPT !.pc = "queryA"])
    /\ UNCHANGED <<config, clients, startup, reqs, hdr, url, gz, tr>>

\* one c.Exchange(m, dnsServer): a server given by name is first looked up
\* by the system resolver, then the question is sent
Exchanged(log, qtype, host, dnsServer) ==
    With(SplitHostPort(DnsServerAddr(dnsServer)), LAMBDA hp :
        (IF ~hp.err /\ ~ParseIP(hp.host)
         THEN Append(log, [by |-> "system", type |-> "host", name |-> hp.host])
         ELSE log)
        \o <<[by |-> "resolveHostWithDNS", type |-> qtype, name |-> host]>>)

\* a resolveHostWithDNS that asks for AAAA also after a failed A query
DnsQueryAKeepsGoing ==
    /\ dns.pc = "queryA"
    /\ \E reply \in DnsReplies :
        dns' = With(SplitHostPort(dns.addr), LAMBDA hp :
        With(FirstOfType(reply.Answer, "A"), LAMBDA ip :
            [dns EXCEPT
                !.log = Exchanged(@, "A", hp.host, dns.resolve.DNS),
                !.replyA = <<reply>>,
                !.target = IF ~reply.err /\ reply.rcodeSuccess /\ ip # <<>>
                           THEN JoinHostPort(ip, hp.port) ELSE @,
                !.pc = IF ~reply.err /\ reply.rcodeSuccess /\ ip # <<>>
                       THEN "connect" ELSE "queryAAAA"]))
    /\ UNCHANGED <<config, clients, startup, reqs, hdr, url, gz, tr>>

\* resolveHostWithDNS, lines 157-175: the A question and its reply
DnsQueryA ==
    /\ dns.pc = "queryA"
    /\ \E reply \in DnsReplies :
        dns' = With(SplitHostPort(dns.addr), LAMBDA hp :
        With(FirstOfType(reply.Answer, "A"), LAMBDA ip :
            [dns EXCEPT
                !.log = Exchanged(@, "A", hp.host, dns.resolve.DNS),
                !.replyA = <<reply>>,
                !.err = reply.err \/ ~reply.rcodeSuccess,
                !.target = IF ~reply.err /\ reply.rcodeSuccess /\ ip # <<>>
                           THEN JoinHostPort(ip, hp.port) ELSE @,
                !.pc = IF reply.err \/ ~reply.rcodeSuccess THEN "done"
                       ELSE IF ip # <<>> THEN "connect"
                       ELSE "queryAAAA"]))
    /\ UNCHANGED <<config, clients, startup, reqs, hdr, url, gz, tr>>

\* resolveHostWithDNS, lines 178-194: the AAAA question and its reply
DnsQueryAAAA ==
    /\ dns.pc = "queryAAAA"
    /\ \E reply \in DnsReplies :
        dns' = With(SplitHostPort(dns.addr), LAMBDA hp :
        With(FirstOfType(reply.Answer, "AAAA"), LAMBDA ip :
            [dns EXCEPT
                !.log = Exchanged(@, "AAAA", hp.host, dns.resolve.DNS),
                !.replyAAAA = <<reply>>,
                !.err = reply.err \/ ~reply.rcodeSuccess \/ ip = <<>>,
                !.target = IF ~reply.err /\ reply.rcodeSuccess /\ ip # <<>>
                           THEN JoinHostPort(ip, hp.port) ELSE @,
                !.pc = IF ~reply.err /\ reply.rcodeSuccess /\ ip # <<>>
                       THEN "connect" ELSE "done"]))
    /\ UNCHANGED <<config, clients, startup, reqs, hdr, url, gz, tr>>

\* net.Dialer.DialContext(ctx, network, target): a target whose host is a
\* name is resolved by the system resolver, an IP is dialled as it is
DialConnect ==
    /\ dns.pc = "connect"
    /\ dns' = With(SplitHostPort(dns.target), LAMBDA hp :
        [dns EXCEPT
            !.log = IF ~hp.err /\ ~ParseIP(hp.host)
                    THEN Append(@, [by |-> "system", type |-> "host", name |-> hp.host])
                    ELSE @,
            !.connected = TRUE,
            !.pc = "done"])
    /\ UNCHANGED <<config, clients, startup, reqs, hdr, url, gz, tr>>

\* forwardRequest, lines 377-381, and ServeHTTP, lines 283-285: client.Do
\* returns the error of the dialer, which is put on the Trace and answered
\* with http.Error; over a connection the backend's answer is relayed.  An
\* answer records the dialer of the pool and the dialer's log of the request.
DialAnswer ==
    /\ dns.pc = "done"
    /\ Len(dns.answers) < dns.dial
    /\ \E resp \in Responses :
        dns' = [dns EXCEPT !.answers = Append(@,
                    [err    |-> dns.err,
                     Error  |-> IF dns.err THEN ErrDispatch ELSE Nil,
                     status |-> IF dns.err THEN StatusInternalServerError
                                ELSE resp.StatusCode,
                     dialer |-> dns.dialer,
                     log    |-> dns.log])]
    /\ UNCHANGED <<config, clients, startup, reqs, hdr, url, gz, tr>>

\* a pool that remembers a failed resolution: the next request on the
\* route fails at once, with no question asked
DialAgainCached ==
    /\ dns.pc = "done"
    /\ Len(dns.answers) = dns.dial
    /\ dns.err
    /\ dns.dial < MaxDials
    /\ dns' = [dns EXCEPT !.dial = @ + 1, !.log = <<>>]
    /\ UNCHANGED <<config, clients, startup, reqs, hdr, url, gz, tr>>

\* a later request on the same route: after a failed dial the transport
\* has no connection to reuse, and calls DialContext of the pool again
DialAgain ==
    /\ dns.pc = "done"
    /\ Len(dns.answers) = dns.dial
    /\ dns.err
    /\ dns.dial < MaxDials
    /\ dns' = [dns EXCEPT !.dial = @ + 1, !.pc = "ready",
                          !.target = <<>>, !.err = FALSE, !.connected = FALSE,
                          !.replyA = <<>>, !.replyAAAA = <<>>, !.log = <<>>]
    /\ UNCHANGED <<config, clients, startup, reqs, hdr, url, gz, tr>>

DialNext ==
    \/ DialConstruct
    \/ DialStart
    \/ DnsQueryA
    \/ DnsQueryAAAA
    \/ DialConnect
    \/ DialAnswer
    \/ DialAgain

SpecDial == DialInit /\ [][DialNext]_vars

----------------------------------------------------------------------------
(* Claims about the dialers (SpecDial) *)

Constructed == dns.pc \notin {"off", "construct"}

\* the questions that resolveHostWithDNS has sent, in order
Questions ==
    LET own == {i \in 1..Len(dns.log) : dns.log[i].by = "resolveHostWithDNS"}
        nth(k) == CHOOSE i \in own : Cardinality({j \in own : j <= i}) = k
    IN  [k \in 1..Cardinality(own) |-> dns.log[nth(k)].type]

StrategyByPrecedence ==
    /\ dns.resolve.IP # <<>> => dns.dialer = "ip"
    /\ (dns.resolve.IP = <<>> /\ dns.resolve.DNS # <<>>) => dns.dialer = "dns"
    /\ (dns.resolve.IP = <<>> /\ dns.resolve.DNS = <<>>) => dns.dialer = "default"
    /\ dns.assigned <= 1

Succeeded(reply) == reply # <<>> /\ ~reply[1].err /\ reply[1].rcodeSuccess
Failed(reply) == reply # <<>> /\ (reply[1].err \/ ~reply[1].rcodeSuccess)
HasRecord(reply, type) ==
    reply # <<>> /\ \E i \in 1..Len(reply[1].Answer) : reply[1].Answer[i].type = type

\* C20: resolveHostWithDNS asks A first; a successful A reply with an A
\* record gives the first A record and no AAAA question; AAAA is asked
\* exactly when the A reply succeeded without an A record; a transport
\* error or an error code on either question, or no address from both,
\* gives an error and no address; the DNS dialer asks nothing for a host
\* that is an IP literal.
C20_ResolveProtocol ==
    (Constructed /\ dns.dialer = "dns") =>
        LET hp == SplitHostPort(dns.addr)
        IN  /\ Questions \in {<<>>, <<"A">>, <<"A", "AAAA">>}
            /\ dns.pc \in {"queryAAAA", "connect", "done"} /\ ~ParseIP(hp.host)
                    => Questions # <<>>
            /\ (Succeeded(dns.replyA) /\ HasRecord(dns.replyA, "A")) =>
                /\ Questions = <<"A">>
                /\ ~dns.err
                /\ \E i \in 1..Len(dns.replyA[1].Answer) :
                    /\ dns.replyA[1].Answer[i].type = "A"
                    /\ \A j \in 1..(i - 1) : dns.replyA[1].Answer[j].type # "A"
                    /\ dns.target = JoinHostPort(dns.replyA[1].Answer[i].ip, hp.port)
            /\ (dns.replyA # <<>> /\ dns.pc # "queryAAAA") =>
                ((Len(Questions) = 2)
                    <=> (Succeeded(dns.replyA) /\ ~HasRecord(dns.replyA, "A")))
            /\ dns.pc = "queryAAAA" =>
                (Succeeded(dns.replyA) /\ ~HasRecord(dns.replyA, "A"))
            /\ (\/ Failed(dns.replyA)
                \/ Failed(dns.replyAAAA)
                \/ (Succeeded(dns.replyAAAA) /\ ~HasRecord(dns.replyAAAA, "AAAA"))) =>
                (dns.pc = "done" /\ dns.err /\ dns.target = <<>> /\ ~dns.connected)
            /\ ParseIP(hp.host) => dns.log = <<>>

\* C20, its case: the A reply held only a CNAME, the AAAA reply an address,
\* and the dialer connected to it
C20_Witness ==
    /\ dns.pc = "done"
    /\ dns.dialer = "dns"
    /\ dns.addr = <<"b", ":">> \o Port80
    /\ Succeeded(dns.replyA) /\ dns.replyA[1].Answer = <<CNAME>>
    /\ Succeeded(dns.replyAAAA) /\ dns.replyAAAA[1].Answer = <<CNAME, RR("AAAA", IP6)>>
    /\ Questions = <<"A", "AAAA">>
    /\ dns.connected
    /\ dns.target = <<"[">> \o IP6 \o <<"]", ":">> \o Port80

\* C21: resolution failure is request-time only.  initializeClientPools
\* asks nothing and gives every route its pool with its dialer, whatever the
\* override; a failed resolution fails the request that was dispatched, with
\* the error on its Trace and a 500, and no other; the dialer of the pool
\* stays the one of startup; every request under the DNS override for a
\* host name asks again, also after a failure.
C21_ResolveAtRequestTime ==
    /\ (dns.pc = "ready" /\ dns.dial = 1) =>
            /\ dns.log = <<>> /\ dns.replyA = <<>> /\ dns.replyAAAA = <<>>
            /\ dns.target = <<>> /\ ~dns.err
    /\ Constructed =>
            /\ dns.dialer \in {"ip", "dns", "default"}
            /\ Len(dns.answers) \in {dns.dial - 1, dns.dial}
            /\ \A k \in 1..Len(dns.answers) :
                /\ dns.answers[k].dialer = dns.dialer
                /\ IF dns.answers[k].err
                   THEN /\ dns.answers[k].Error = ErrDispatch
                        /\ dns.answers[k].status = StatusInternalServerError
                   ELSE dns.answers[k].Error = Nil
                /\ (dns.dialer = "dns" /\ ~ParseIP(SplitHostPort(dns.addr).host)) =>
                    \E q \in 1..Len(dns.answers[k].log) :
                        /\ dns.answers[k].log[q].by = "resolveHostWithDNS"
                        /\ dns.answers[k].log[q].type = "A"

\* C21, its case: under a DNS override the first request failed on its A
\* question and was answered 500; the second asked again, got an address,
\* connected and was relayed
C21_Witness ==
    /\ dns.dialer = "dns"
    /\ Len(dns.answers) = 2
    /\ dns.answers[1].err /\ dns.answers[1].status = 500
    /\ ~dns.answers[2].err /\ dns.answers[2].status = 200
    /\ dns.answers[2].log # <<>>
    /\ dns.connected

----------------------------------------------------------------------------
(* Claims about the order of stages and of startup (Spec, SpecPools) *)

StageOrder ==
    <<"URL_BUILT", "BODY_READ", "HEADERS_BUILT", "POOL_SELECTED", "DISPATCHED",
      "RESPONSE_READ", "RELAYED">>

IsFailed(i) ==
    reqs[i].stages # <<>> /\ reqs[i].stages[Len(reqs[i].stages)] = "FAILED"

\* the stages that a request completed
Completed(i) ==
    IF IsFailed(i) THEN SubSeq(reqs[i].stages, 1, Len(reqs[i].stages) - 1)
    ELSE reqs[i].stages

\* C17: the stages of a routed request are a prefix of URL_BUILT, BODY_READ,
\* HEADERS_BUILT, POOL_SELECTED, DISPATCHED, RESPONSE_READ, RELAYED, in that
\* order with none left out, ended by FAILED at the first stage that fails;
\* after FAILED the request only answers: nothing is dispatched any more and
\* nothing of a backend response is relayed.
C17_StageOrder ==
    \A i \in 1..Len(reqs) :
        /\ Len(Completed(i)) <= Len(StageOrder)
        /\ Completed(i) = SubSeq(StageOrder, 1, Len(Completed(i)))
        /\ IsFailed(i) =>
            /\ Len(Completed(i)) < Len(StageOrder)
            /\ reqs[i].pc \in {"finish", "done"}
            /\ reqs[i].trace.Error # Nil
            /\ Len(Completed(i)) < 4 => reqs[i].dispatches = 0
            /\ Len(Completed(i)) < 6 =>
                \A k \in 1..Len(reqs[i].w.calls) : reqs[i].w.calls[k][1] # "Header"
        /\ reqs[i].dispatches = 1 => Len(reqs[i].stages) >= 5
        /\ reqs[i].pc = "done" /\ reqs[i].stages # <<>> =>
            (IsFailed(i) \/ reqs[i].stages = StageOrder)

\* C17, its case: one request went through all the stages, another failed
\* when its outbound request was constructed, after the body was read
C17_Witness ==
    \E i, j \in 1..Len(reqs) :
        /\ reqs[i].pc = "done" /\ reqs[i].stages = StageOrder
        /\ reqs[j].pc = "done"
        /\ reqs[j].stages = <<"URL_BUILT", "BODY_READ", "FAILED">>

\* C18: whenever a request is being handled, the route table is loaded and
\* initializeClientPools has finished: no route is waiting for its pool,
\* and every route resolves to a client.
C18_StartupFirst ==
    reqs # <<>> =>
        /\ startup.phase \in {"serving", "exited"}
        /\ startup.pending = {}
        /\ \A host \in DOMAIN config :
            getClientForDomain(config[host].BackendBase) # NilClient
        /\ \A i \in 1..Len(reqs) : reqs[i].pc # "panic"

\* C18, its case: with two routes on two backends, a request was relayed
C18_Witness ==
    /\ Cardinality(DOMAIN clients) = 2
    /\ \E i \in 1..Len(reqs) :
        /\ reqs[i].pc = "done"
        /\ reqs[i].stages = StageOrder
        /\ reqs[i].client # NilClient

\* C19: initializeClientPools constructs one client per backend host: as
\* many clients as the registry has entries, an entry never written twice.
C19_OneClientPerHost ==
    startup.phase \in {"init", "serving"} =>
        startup.made = Cardinality(DOMAIN clients)

----------------------------------------------------------------------------
(* The route lookup on its own: startup, then requests with any Host, up  *)
(* to the lookup in the TransitMap (ServeHTTP, lines 191-201)             *)

\* Host headers: a name, a name with a port, IPv6 literals in brackets with
\* and without a port
V6 == <<"[", ":", ":", "1", "]">>
RouteHosts ==
    {HostA, HostA \o <<":", "8">>, HostC \o <<":", "8", "0">>, <<"z">>,
     V6, V6 \o <<":", "8">>}

\* route tables: names only, and a name with an IPv6 literal
RouteTables ==
    {Table(BaseBPort, BaseBPort),
     (HostA :> RuleA(BaseHttpB)) @@ (V6 :> RuleC(BaseBPort))}

\* the HTTP server hands ServeHTTP a request with any of the Host headers
ArriveAnyHost ==
    /\ startup.phase = "serving"
    /\ Len(reqs) < MaxReqs
    /\ \E host \in RouteHosts : reqs' = Append(reqs, NewRequest(host))
    /\ UNCHANGED <<config, clients, startup, hdr, url, gz, tr, dns>>

RouteNext ==
    \/ Startup
    \/ StartServing
    \/ ArriveAnyHost
    \/ \E i \in Handlers : RouteNotFound(i)
    \/ \E i \in Handlers : Route(i)

SpecRoute == StartupInit(RouteTables) /\ [][RouteNext]_vars

\* C22: the routing key.  Once the handler has looked up the route of a
\* request, the key it used is the Host with exactly its port suffix removed
\* (a Host without a port unchanged, a bracketed IPv6 literal with a port
\* the literal without the port), and a route configured for that name is
\* the one selected.
C22_RoutingKey ==
    \A i \in 1..Len(reqs) :
        reqs[i].pc # "route" =>
            /\ reqs[i].key = HostWithoutPort(reqs[i].Host)
            /\ HostWithoutPort(reqs[i].Host) \in DOMAIN config =>
                /\ reqs[i].pc # "done"
                /\ reqs[i].rule = config[HostWithoutPort(reqs[i].Host)]

----------------------------------------------------------------------------
(* Further claims about the header pipeline (SpecHeaders) *)

\* the host component of the URL that buildTransitBackendURL builds for a
\* rule, as http.NewRequest parses it
TargetHost(rule) == urlParse(buildTransitBackendURL(rule, <<"/", "u">>, <<>>)).Host

\* C23: the Host header that processHeaders forces onto the outbound request
\* is the host component of the backend URL built for the rule and is the
\* pool key of the rule, whatever forwarded, extra or set Host value there
\* was; also for a backend_base written without a scheme.
C23_ForcedHost ==
    hdr.done =>
        /\ HostKey \in DOMAIN hdr.out
        /\ hdr.out[HostKey] = <<TargetHost(hdr.rule)>>
        /\ hdr.out[HostKey] = <<extractDomain(hdr.rule.BackendBase)>>

\* C24: processHeaders is a function of the inbound headers and the rule.
\* The outbound header set of a call is the one that every execution on the
\* same inputs gives, in whatever order the extra and set maps are iterated,
\* also when extra or set holds two names that differ only in letter case.
C24_Deterministic ==
    hdr.done =>
        \A extraOrder \in Orders(DOMAIN hdr.rule.Headers.Extra),
           setOrder \in Orders(DOMAIN hdr.rule.Headers.Set) :
            processHeaders(hdr.inbound, hdr.rule, extraOrder, setOrder) = hdr.out

----------------------------------------------------------------------------
(* Further claims about the server (Spec) *)

\* the positions of the handler's calls of one kind on its ResponseWriter
CallsOf(i, kind) == {k \in 1..Len(reqs[i].w.calls) : reqs[i].w.calls[k][1] = kind}

\* C25: single status write.  For every request and every outcome the
\* handler writes a status line at most once, and after it has written the
\* backend's body (the write that follows the copy of the backend's headers)
\* it writes nothing more to the body.
C25_SingleStatusWrite ==
    \A i \in 1..Len(reqs) :
        /\ Cardinality(CallsOf(i, "WriteHeader")) <= 1
        /\ \A h \in CallsOf(i, "Header") :
            Cardinality({k \in CallsOf(i, "Write") : k > h}) <= 1

----------------------------------------------------------------------------
(* processHeaders on shared value lists.  A value of http.Header is a Go   *)
(* slice: `headers[key] = values` (line 248) makes the outbound map refer  *)
(* to the list that the inbound map refers to.  Here a header map is a map *)
(* from key to the number of a list, and `lists` holds the lists; a state  *)
(* of the call is [lists, Header, headers] with r.Header and the local     *)
(* headers as such maps.                                                   *)

\* the map with its lists read out
Deref(map, lists) == [k \in DOMAIN map |-> lists[map[k]]]

\* r.Header as the server made it: one list per key
RequestHeader(header) ==
    LET n == Cardinality(DOMAIN header)
        at == CHOOSE f \in [DOMAIN header -> 1..n] :
                \A a, b \in DOMAIN header : f[a] = f[b] => a = b
    IN  [lists   |-> [i \in 1..n |-> header[CHOOSE k \in DOMAIN header : at[k] = i]],
         Header  |-> at,
         headers |-> NoMap]

\* Header.Get on the local headers
GetOf(st, key) ==
    With(CanonicalHeaderKey(key), LAMBDA k :
        IF k \in DOMAIN st.headers /\ Len(st.lists[st.headers[k]]) > 0
        THEN st.lists[st.headers[k]][1]
        ELSE <<>>)

\* Header.Del on the local headers: the entry is deleted, its list is left
DelOf(st, key) ==
    With(CanonicalHeaderKey(key), LAMBDA k :
        [st EXCEPT !.headers = [x \in (DOMAIN st.headers) \ {k} |-> st.headers[x]]])

\* a Set that stores the value in the list the key has already, when it has
\* one with room for it: h[key] = append(h[key][:0], value)
SetOfInPlace(st, key, value) ==
    With(CanonicalHeaderKey(key), LAMBDA k :
        IF k \in DOMAIN st.headers /\ Len(st.lists[st.headers[k]]) > 0
        THEN [st EXCEPT !.lists[st.headers[k]] = <<value>>]
        ELSE [st EXCEPT
                !.lists = Append(@, <<value>>),
                !.headers = [x \in (DOMAIN st.headers) \cup {k} |->
                                IF x = k THEN Len(st.lists) + 1 ELSE st.headers[x]]])

\* Header.Set on the local headers: h[key] = []string{value}, a new list
SetOf(st, key, value) ==
    With(CanonicalHeaderKey(key), LAMBDA k :
        [st EXCEPT
            !.lists = Append(@, <<value>>),
            !.headers = [x \in (DOMAIN st.headers) \cup {k} |->
                            IF x = k THEN Len(st.lists) + 1 ELSE st.headers[x]]])

\* lines 252-256 (isSet false) and 258-263 (isSet true): the loops over
\* rule.Headers.Extra and rule.Headers.Set
RECURSIVE LoopOf(_, _, _, _)
LoopOf(st, map, order, isSet) ==
    IF order = <<>> THEN st
    ELSE With(Head(order), LAMBDA key :
         With(IF isSet
              THEN SetOf(IF GetOf(st, key) # <<>> THEN DelOf(st, key) ELSE st,
                         key, map[key])
              ELSE IF GetOf(st, key) = <<>> THEN SetOf(st, key, map[key]) ELSE st,
              LAMBDA next : LoopOf(next, map, Tail(order), isSet)))

\* ProxyHandler.processHeaders on the shared lists
processHeadersOf(st, rule, extraOrder, setOrder) ==
    With([st EXCEPT !.headers =
            IF rule.Headers.ForwardClient
            THEN [key \in {k \in DOMAIN st.Header :
                            ToLower(k) \notin rule.Headers.removes} |-> st.Header[key]]
            ELSE NoMap], LAMBDA forwarded :
    With(LoopOf(forwarded, rule.Headers.Extra, extraOrder, FALSE), LAMBDA withExtra :
    With(LoopOf(withExtra, rule.Headers.Set, setOrder, TRUE), LAMBDA withSet :
        SetOf(withSet, HostKey, extractHost(rule.BackendBase)))))

\* one call of processHeaders; sent is what the client sent
ShareInit ==
    /\ hdr \in {[rule |-> LoadConfig([h \in {"api"} |-> raw])["api"],
                 sent |-> header,
                 st   |-> RequestHeader(header),
                 done |-> FALSE] :
                    raw \in HdrRawRules, header \in InboundHeaders}
    /\ ServerIdle /\ UrlIdle /\ GzIdle /\ TrIdle /\ DnsIdle

\* forwardRequest, lines 278 and 294: trace.RequestHeaders is r.Header, and
\* req.Header = p.processHeaders(r, rule)
ShareProcess ==
    /\ ~hdr.done
    /\ \E extraOrder \in Orders(DOMAIN hdr.rule.Headers.Extra),
          setOrder \in Orders(DOMAIN hdr.rule.Headers.Set) :
            hdr' = [hdr EXCEPT
                      !.st = processHeadersOf(hdr.st, hdr.rule, extraOrder, setOrder),
                      !.done = TRUE]
    /\ UNCHANGED <<config, clients, startup, reqs, url, gz, tr, dns>>

SpecShare == ShareInit /\ [][ShareProcess]_vars

\* C26: processHeaders leaves the inbound request unchanged.  After the
\* call r.Header has the keys it had and every key the list it had, with
\* the values it had: Trace.RequestHeaders, which is r.Header, shows what
\* the client sent; and no list of r.Header other than a forwarded one is
\* in the outbound set.
C26_InboundUnchanged ==
    hdr.done =>
        /\ hdr.st.Header = RequestHeader(hdr.sent).Header
        /\ Deref(hdr.st.Header, hdr.st.lists) = hdr.sent
        /\ \A k \in DOMAIN hdr.st.headers :
            hdr.st.headers[k] <= Cardinality(DOMAIN hdr.sent) =>
                /\ k \in DOMAIN hdr.sent
                /\ hdr.st.headers[k] = hdr.st.Header[k]

\* C26, its case: one inbound list is shared with the outbound set, and a
\* second inbound header, sent with an empty first value, has its extra
\* value in the outbound set and still its own in the inbound map
C26_Witness ==
    /\ hdr.done
    /\ hdr.sent = (XA :> <<<<>>, <<"c">>>>) @@ (Auth :> <<<<"c">>>>)
    /\ {XA, Auth} \subseteq DOMAIN hdr.st.headers
    /\ hdr.st.headers[Auth] = hdr.st.Header[Auth]
    /\ hdr.st.headers[XA] # hdr.st.Header[XA]
    /\ hdr.st.lists[hdr.st.headers[XA]] = <<<<"e">>>>
    /\ hdr.st.lists[hdr.st.Header[XA]] = <<<<>>, <<"c">>>>

====
